---- MODULE Spec2Model ----
(***************************************************************************)
(* Verification model of the Legion HPCG port (CODY):                      *)
(*   - ReportResults (explicit-spmd/ReportResults.hpp): the YAML report    *)
(*     and the run-validity verdict;                                       *)
(*   - LogicalSparseMatrix (v3/LegionMatrices.hpp): allocate, partition,   *)
(*     deallocate and the replicated dynamic collective;                   *)
(*   - PopulateGlobalToLocalMap (v3/LegionMatrices.hpp);                   *)
(*   - the halo exchange over the Synchronizers' phase barriers;           *)
(*   - the loop of the CG driver;                                          *)
(*   - the constructor of the physical SparseMatrix (mUnpack).             *)
(* Each part has its own specification over the shared variables.          *)
(***************************************************************************)
EXTENDS Integers, Sequences, FiniteSets, TLC

VARIABLES
    \* ---- ReportResults ----
    args,        \* the arguments of the current ReportResults call
    rpc,         \* position inside ReportResults
    t4red,       \* locals t4min, t4max, t4avg
    doc,         \* the YAML_Doc being built (top-level elements, in order)
    isValidRun,  \* local of the same name ("unset" before line 432)
    yaml,        \* TRUE once doc.generateYAML() has run
    \* ---- LogicalSparseMatrix ----
    lgeom,       \* the Geometry handed to allocate
    arrays,      \* per LogicalArray member: its allocation state
    allocLog,    \* member names in the order allocate was called on them
    deallocLog,  \* member names in the order deallocate was called on them
    launchDomain,\* LogicalSparseMatrix::launchDomain
    nPartsArg,   \* the nParts of the partition call
    collectives, \* dynamic collectives created so far (arrival counts)
    dcRegion,    \* contents of the dcAllreduceSum region
    oobWrite,    \* TRUE once a store went past the end of dcAllreduceSum
    lpc,         \* lifecycle position of the logical matrix
    \* ---- PopulateGlobalToLocalMap ----
    mgeom,       \* A.geom of the physical matrix
    globalToLocalMap, \* A.globalToLocalMap, a set of <<key, value>> pairs
    mpc,         \* position: "fresh" or "populated"
    \* ---- halo exchange ----
    hpc,         \* per rank: position inside one exchange
    hgen,        \* per rank: generation g of the exchange it runs
    pbTriggered, \* per rank: last triggered generation of the barrier it owns
    pbArrivals,  \* per rank: arrivals at the current generation of its barrier
    puts,        \* asynchronous puts in flight
    pullBuffer,  \* per rank, per neighbour slot: generation of the value held
    haloRead,    \* per rank, per neighbour: generation observed by the last read
    \* ---- CG driver ----
    cgin,        \* inputs: maxIter, tolerance, normr0 and the residual norms
    cgpc,        \* position inside the driver
    cgk,         \* loop counter k
    cgiters,     \* iterations executed so far
    cgnormr,     \* normr of the last iteration
    cgexit,      \* how the loop was left
    \* ---- SparseMatrix (physical) ----
    uin,         \* constructor arguments: regions, baseRID, iFlags
    upc,         \* position inside the constructor
    cid,         \* local cid of mUnpack
    members,     \* per member pointer: the region it was built on, or nullptr
    mNRegionEntries, \* PhysicalMultiBase::mNRegionEntries
    mUnpackFlags, \* PhysicalMultiBase::mUnpackFlags
    elementsToSend, \* SparseMatrix::elementsToSend: nullptr or an array
    heap,        \* the objects allocated with new and not yet released
    freed,       \* per object: how many times delete has released it
    \* ---- ReportResults on all ranks ----
    cin,         \* the run: size and every rank's times[4]
    cpos,        \* per rank: position inside ReportResults
    cdone,       \* per rank: number of allReduce calls that have returned
    carrlog,     \* per rank: the collectives it has arrived at, in order
    ccontrib,    \* per collective: the values it has received, in order
    clocals,     \* per rank: locals t4min, t4max, t4avg
    creports,    \* the reports built: rank and the three values reported
    \* ---- PopulateGlobalToLocalMap on all ranks of a process grid ----
    pgrid,       \* the process grid: nx, ny, nz of every rank, npx, npy, npz
    pmaps,       \* per rank: its matrix's globalToLocalMap
    ppc          \* per rank: "fresh" or "populated"

rvars == <<args, rpc, t4red, doc, isValidRun, yaml>>
lvars == <<lgeom, arrays, allocLog, deallocLog, launchDomain, nPartsArg,
           collectives,
           dcRegion, oobWrite, lpc>>
mvars == <<mgeom, globalToLocalMap, mpc>>
hvars == <<hpc, hgen, pbTriggered, pbArrivals, puts, pullBuffer, haloRead>>
cgvars == <<cgin, cgpc, cgk, cgiters, cgnormr, cgexit>>
uvars == <<uin, upc, cid, members, mNRegionEntries, mUnpackFlags,
          elementsToSend, heap, freed>>
cvars == <<cin, cpos, cdone, carrlog, ccontrib, clocals, creports>>
pvars == <<pgrid, pmaps, ppc>>
xvars == <<cgvars, uvars, cvars, pvars>>
vars == <<rvars, lvars, mvars, hvars, xvars>>

----------------------------------------------------------------------------
(* Values stored in the YAML document.  A double that results from a       *)
(* division is kept as the exact quotient nume/deno.                       *)
Str(s) == [str |-> s]
Num(n) == [num |-> n]
Ratio(a, b) == [nume |-> a, deno |-> b]
Opaque(s) == [opaque |-> s]

Elem(k, v) == [key |-> k, value |-> v, children |-> <<>>]

\* index of the first element of seq s whose key is k (0 when absent)
FirstIdx(s, k) ==
    IF \E i \in 1..Len(s) : s[i].key = k
    THEN CHOOSE i \in 1..Len(s) :
             /\ s[i].key = k
             /\ \A j \in 1..(i-1) : s[j].key # k
    ELSE 0

\* doc.add(k, v)
DocAdd(d, k, v) == Append(d, Elem(k, v))

\* doc.get(k)->add(ck, cv)
DocGetAdd(d, k, ck, cv) ==
    [i \in 1..Len(d) |->
        IF i = FirstIdx(d, k)
        THEN [d[i] EXCEPT !.children = Append(@, Elem(ck, cv))]
        ELSE d[i]]

\* doc.get(k)->get(k2)->add(ck, cv)
DocGetGetAdd(d, k, k2, ck, cv) ==
    [i \in 1..Len(d) |->
        IF i = FirstIdx(d, k)
        THEN [d[i] EXCEPT !.children = DocGetAdd(@, k2, ck, cv)]
        ELSE d[i]]

\* doc.get(k)->add(...) for a list of <<key, value>> pairs, in order
RECURSIVE DocGetAddAll(_, _, _)
DocGetAddAll(d, k, kvs) ==
    IF kvs = <<>> THEN d
    ELSE DocGetAddAll(DocGetAdd(d, k, kvs[1][1], kvs[1][2]), k, Tail(kvs))

----------------------------------------------------------------------------
(* Strings of the report, as in the source.                                *)
FinalSummary == "__________ Final Summary __________"
DepartureFromSymmetry ==
    "Departure from Symmetry |x'Ay-y'Ax|/(2*||x||*||A||*||y||)/epsilon"
UploadURL == "http://hpcg-benchmark.org"
ValidKey == "HPCG result is VALID with a GFLOP/s rating of"
InvalidKey == "HPCG result is"
QuickPathKey == "     You have selected the QuickPath option"
MinTimeKey == "     Official results execution time (sec) must be at least"

\* Any official benchmark result must run at least this many seconds.
minOfficialTime == 1800

----------------------------------------------------------------------------
(* Exact arithmetic on the doubles of the report: a double is the quotient *)
(* nume/deno; the final division by 1.0E9 is kept as a tag.                *)
R(n) == Ratio(n, 1)
RAdd(a, b) == Ratio(a.nume * b.deno + b.nume * a.deno, a.deno * b.deno)
RMul(a, b) == Ratio(a.nume * b.nume, a.deno * b.deno)
RDiv(a, b) == Ratio(a.nume * b.deno, a.deno * b.nume)
PerGiga(r) == [nume |-> r.nume, deno |-> r.deno, perGiga |-> TRUE]

sizeofDouble == 8
sizeofLocalInt == 4

----------------------------------------------------------------------------
(* The multigrid hierarchy is the chain A, A.Ac, A.Ac->Ac, ...; a.A is the *)
(* sequence of its matrices, finest first, and a cursor past its end is    *)
(* the null pointer.                                                       *)
Level(a, i) == a.A[i]

nullptr == [null |-> TRUE]

\* ======================== FLOP count model ========================
fniters(a) == a.numberOfCgSets * a.optMaxIters
fnrow(a) == Level(a, 1).totalNumberOfRows
fnnz(a) == Level(a, 1).totalNumberOfNonzeros
fnops_ddot(a) == (3 * fniters(a) + a.numberOfCgSets) * 2 * fnrow(a)
fnops_waxpby(a) == (3 * fniters(a) + a.numberOfCgSets) * 2 * fnrow(a)
fnops_sparsemvMutant(a) == (fniters(a) + a.numberOfCgSets) * 2 * fnrow(a)

fnops_sparsemv(a) == (fniters(a) + a.numberOfCgSets) * 2 * fnnz(a)

\* the loop "for (int i = 1; i < numberOfMgLevels; ++i)" with cursor Af
RECURSIVE PrecondOpsLoopMutant(_, _, _)
PrecondOpsLoopMutant(a, i, acc) ==
    IF i < a.numberOfMgLevels
    THEN LET Af == Level(a, i)
             nnzAf == Af.totalNumberOfNonzeros
         IN PrecondOpsLoopMutant(a, i + 1,
                acc + Af.mgData.numberOfPresmootherSteps * fniters(a) * 4 * nnzAf
                    + fniters(a) * 2 * nnzAf
                    + Af.mgData.numberOfPostsmootherSteps * fniters(a) * 4 * nnzAf)
    ELSE acc + fniters(a) * 4 * Level(a, 1).totalNumberOfNonzeros

RECURSIVE PrecondOpsLoop(_, _, _)
PrecondOpsLoop(a, i, acc) ==
    IF i < a.numberOfMgLevels
    THEN LET Af == Level(a, i)
             nnzAf == Af.totalNumberOfNonzeros
         IN PrecondOpsLoop(a, i + 1,
                acc + Af.mgData.numberOfPresmootherSteps * fniters(a) * 4 * nnzAf
                    + fniters(a) * 2 * nnzAf
                    + Af.mgData.numberOfPostsmootherSteps * fniters(a) * 4 * nnzAf)
    ELSE acc + fniters(a) * 4 * Level(a, i).totalNumberOfNonzeros

fnops_precond(a) == PrecondOpsLoop(a, 1, 0)
fnops(a) == fnops_ddot(a) + fnops_waxpby(a) + fnops_sparsemv(a)
            + fnops_precond(a)
frefnops(a) == RDiv(RMul(R(fnops(a)), R(a.refMaxIters)), R(a.optMaxIters))

\* ======================== Memory bandwidth model ========================
fnreads_ddot(a) ==
    (3 * fniters(a) + a.numberOfCgSets) * 2 * fnrow(a) * sizeofDouble
fnwrites_ddot(a) == (3 * fniters(a) + a.numberOfCgSets) * sizeofDouble
fnreads_waxpby(a) ==
    (3 * fniters(a) + a.numberOfCgSets) * 2 * fnrow(a) * sizeofDouble
fnwrites_waxpby(a) ==
    (3 * fniters(a) + a.numberOfCgSets) * fnrow(a) * sizeofDouble
fnreads_sparsemv(a) ==
    (fniters(a) + a.numberOfCgSets)
        * (fnnz(a) * (sizeofDouble + sizeofLocalInt) + fnrow(a) * sizeofDouble)
fnwrites_sparsemv(a) ==
    (fniters(a) + a.numberOfCgSets) * fnrow(a) * sizeofDouble

RECURSIVE PrecondReadsLoop(_, _, _)
PrecondReadsLoop(a, i, acc) ==
    IF i < a.numberOfMgLevels
    THEN LET Af == Level(a, i)
             nnzAf == Af.totalNumberOfNonzeros
             nrowAf == Af.totalNumberOfRows
             smooth == 2 * nnzAf * (sizeofDouble + sizeofLocalInt)
                       + nrowAf * sizeofDouble
         IN PrecondReadsLoop(a, i + 1,
                acc + Af.mgData.numberOfPresmootherSteps * fniters(a) * smooth
                    + fniters(a) * (nnzAf * (sizeofDouble + sizeofLocalInt)
                                    + nrowAf * sizeofDouble)
                    + Af.mgData.numberOfPostsmootherSteps * fniters(a) * smooth)
    ELSE LET Af == Level(a, i)
         IN acc + fniters(a)
                  * (2 * Af.totalNumberOfNonzeros
                       * (sizeofDouble + sizeofLocalInt)
                     + Af.totalNumberOfRows * sizeofDouble)

\* lines 174-191: the loop over the levels and the coarsest level's term
RECURSIVE PrecondWritesLoopMutant(_, _, _)
PrecondWritesLoopMutant(a, i, acc) ==
    IF i < a.numberOfMgLevels
    THEN LET Af == Level(a, i)
             nnzAf == Af.totalNumberOfNonzeros
             nrowAf == Af.totalNumberOfRows
         IN PrecondWritesLoopMutant(a, i + 1,
                acc + Af.mgData.numberOfPresmootherSteps * fniters(a) * nrowAf
                          * sizeofDouble
                    + fniters(a) * nrowAf * sizeofDouble
                    + Af.mgData.numberOfPostsmootherSteps * fniters(a) * nnzAf
                          * sizeofDouble)
    ELSE acc + fniters(a) * Level(a, i).totalNumberOfRows * sizeofDouble

RECURSIVE PrecondWritesLoop(_, _, _)
PrecondWritesLoop(a, i, acc) ==
    IF i < a.numberOfMgLevels
    THEN LET Af == Level(a, i)
             nnzAf == Af.totalNumberOfNonzeros
             nrowAf == Af.totalNumberOfRows
         IN PrecondWritesLoop(a, i + 1,
                acc + Af.mgData.numberOfPresmootherSteps * fniters(a) * nrowAf
                          * sizeofDouble
                    + fniters(a) * nnzAf * sizeofDouble
                    + Af.mgData.numberOfPostsmootherSteps * fniters(a) * nnzAf
                          * sizeofDouble)
    ELSE acc + fniters(a) * Level(a, i).totalNumberOfRows * sizeofDouble

fnreads_precond(a) == PrecondReadsLoop(a, 1, 0)
fnwrites_precond(a) == PrecondWritesLoop(a, 1, 0)
fnreads(a) == fnreads_ddot(a) + fnreads_waxpby(a) + fnreads_sparsemv(a)
              + fnreads_precond(a)
fnwrites(a) == fnwrites_ddot(a) + fnwrites_waxpby(a) + fnwrites_sparsemv(a)
               + fnwrites_precond(a)
frefnreads(a) == RDiv(RMul(R(fnreads(a)), R(a.refMaxIters)), R(a.optMaxIters))
frefnwrites(a) ==
    RDiv(RMul(R(fnwrites(a)), R(a.refMaxIters)), R(a.optMaxIters))

\* times[0] + fNumberOfCgSets * (times[7] / 10.0 + times[9] / 10.0)
TimeWithOverhead(a) ==
    RAdd(R(a.times[0]),
         RMul(R(a.numberOfCgSets),
              RAdd(RDiv(R(a.times[7]), R(10)), RDiv(R(a.times[9]), R(10)))))

totalGflopsMutant(a) ==
    PerGiga(RDiv(frefnops(a),
                 RAdd(R(a.times[0]),
                      RDiv(RMul(R(a.numberOfCgSets), R(a.times[7])), R(10)))))

totalGflops(a) == PerGiga(RDiv(frefnops(a), TimeWithOverhead(a)))
totalGflops24(a) ==
    PerGiga(RDiv(frefnops(a),
                 RAdd(R(a.times[0]),
                      RDiv(RMul(R(a.numberOfCgSets), R(a.times[7])), R(10)))))


----------------------------------------------------------------------------
(* The report, section by section, in the order of the source.             *)

\* lines 274-294
HeaderSections(a) ==
    LET g == a.geom
        d0 == DocAdd(<<>>, "Release date", Str("November 11, 2015"))
        d1 == DocGetAddAll(DocAdd(d0, "Machine Summary", Str("")),
                  "Machine Summary",
                  << <<"Distributed Processes", Num(g.size)>>,
                     <<"Threads per processes", Num(g.numThreads)>> >>)
        d2 == DocGetAddAll(DocAdd(d1, "Global Problem Dimensions", Str("")),
                  "Global Problem Dimensions",
                  << <<"Global nx", Num(g.npx * g.nx)>>,
                     <<"Global ny", Num(g.npy * g.ny)>>,
                     <<"Global nz", Num(g.npz * g.nz)>> >>)
        d3 == DocGetAddAll(DocAdd(d2, "Processor Dimensions", Str("")),
                  "Processor Dimensions",
                  << <<"npx", Num(g.npx)>>, <<"npy", Num(g.npy)>>,
                     <<"npz", Num(g.npz)>> >>)
    IN DocGetAddAll(DocAdd(d3, "Local Domain Dimensions", Str("")),
           "Local Domain Dimensions",
           << <<"nx", Num(g.nx)>>, <<"ny", Num(g.ny)>>, <<"nz", Num(g.nz)>> >>)

\* lines 309-316: the loop over the coarse grids
RECURSIVE CoarseGridsLoop(_, _, _)
CoarseGridsLoop(d, a, i) ==
    IF i < a.numberOfMgLevels
    THEN LET Af == Level(a, i)
             Ac == Level(a, i + 1)
             MI == "Multigrid Information"
             CG == "Coarse Grids"
             e1 == DocGetGetAdd(d, MI, CG, "Grid Level", Num(i))
             e2 == DocGetGetAdd(e1, MI, CG, "Number of Equations",
                                Num(Ac.totalNumberOfRows))
             e3 == DocGetGetAdd(e2, MI, CG, "Number of Nonzero Terms",
                                Num(Ac.totalNumberOfNonzeros))
             e4 == DocGetGetAdd(e3, MI, CG, "Number of Presmoother Steps",
                                Num(Af.mgData.numberOfPresmootherSteps))
             e5 == DocGetGetAdd(e4, MI, CG, "Number of Postsmoother Steps",
                                Num(Af.mgData.numberOfPostsmootherSteps))
         IN CoarseGridsLoop(e5, a, i + 1)
    ELSE d

\* lines 296-316
ProblemSections(d, a) ==
    LET d1 == DocAdd(d, "########## Problem Summary  ##########", Str(""))
        d2 == DocGetAdd(DocAdd(d1, "Setup Information", Str("")),
                  "Setup Information", "Setup Time", R(a.times[9]))
        d3 == DocGetAddAll(DocAdd(d2, "Linear System Information", Str("")),
                  "Linear System Information",
                  << <<"Number of Equations", Num(fnrow(a))>>,
                     <<"Number of Nonzero Terms", Num(fnnz(a))>> >>)
        d4 == DocGetAddAll(DocAdd(d3, "Multigrid Information", Str("")),
                  "Multigrid Information",
                  << <<"Number of coarse grid levels",
                       Num(a.numberOfMgLevels - 1)>>,
                     <<"Coarse Grids", Str("")>> >>)
    IN CoarseGridsLoop(d4, a, 1)

\* lines 328-331
RECURSIVE MemoryLevelsLoop(_, _, _)
MemoryLevelsLoop(d, a, i) ==
    IF i < a.numberOfMgLevels
    THEN LET MU == "Memory Use Information"
             e1 == DocGetGetAdd(d, MU, "Coarse Grids", "Grid Level", Num(i))
             e2 == DocGetGetAdd(e1, MU, "Coarse Grids", "Memory used",
                                Opaque("fnbytesPerLevel[i] / 1e9"))
         IN MemoryLevelsLoop(e2, a, i + 1)
    ELSE d

\* lines 318-331.  The byte counts of the memory usage model depend on the
\* sizes of types that are declared outside these sources; they are carried
\* as opaque values.
MemorySections(d, a) ==
    LET d1 == DocAdd(d, "########## Memory Use Summary  ##########", Str(""))
        d2 == DocGetAddAll(DocAdd(d1, "Memory Use Information", Str("")),
                  "Memory Use Information",
                  << <<"Total memory used for data (Gbytes)",
                       Opaque("fnbytes / 1e9")>>,
                     <<"Memory used for OptimizeProblem data (Gbytes)",
                       Opaque("fnbytes_OptimizedProblem / 1e9")>>,
                     <<"Bytes per equation (Total memory / Number of Equations)",
                       Opaque("fnbytesPerEquation")>>,
                     <<"Memory used for linear system and CG (Gbytes)",
                       Opaque("fnbytesPerLevel[0] / 1e9")>>,
                     <<"Coarse Grids", Str("")>> >>)
    IN MemoryLevelsLoop(d2, a, 1)

PassedOrFailed(passed) == IF passed THEN Str("PASSED") ELSE Str("FAILED")

\* lines 333-357
ValidationSections(d, a) ==
    LET SC == "Spectral Convergence Tests"
        d1 == DocAdd(d, "########## V&V Testing Summary  ##########", Str(""))
        d2 == DocGetAddAll(DocAdd(d1, SC, Str("")), SC,
                  << <<"Result", PassedOrFailed(a.testcg_data.count_fail = 0)>>,
                     <<"Unpreconditioned", Str("")>> >>)
        d3 == DocGetGetAdd(d2, SC, "Unpreconditioned",
                  "Maximum iteration count",
                  Num(a.testcg_data.niters_max_no_prec))
        d4 == DocGetGetAdd(d3, SC, "Unpreconditioned",
                  "Expected iteration count",
                  Num(a.testcg_data.expected_niters_no_prec))
        d5 == DocGetAdd(d4, SC, "Preconditioned", Str(""))
        d6 == DocGetGetAdd(d5, SC, "Preconditioned",
                  "Maximum iteration count",
                  Num(a.testcg_data.niters_max_prec))
        d7 == DocGetGetAdd(d6, SC, "Preconditioned",
                  "Expected iteration count",
                  Num(a.testcg_data.expected_niters_prec))
    IN DocGetAddAll(DocAdd(d7, DepartureFromSymmetry, Str("")),
           DepartureFromSymmetry,
           << <<"Result", PassedOrFailed(a.testsymmetry_data.count_fail = 0)>>,
              <<"Departure for SpMV", R(a.testsymmetry_data.depsym_spmv)>>,
              <<"Departure for MG", R(a.testsymmetry_data.depsym_mg)>> >>)

\* lines 359-370
IterationSectionsMutant(d, a) ==
    LET IC == "Iteration Count Information"
        d1 == DocAdd(d, "########## Iterations Summary  ##########", Str(""))
    IN DocGetAddAll(DocAdd(d1, IC, Str("")), IC,
           << <<"Result", PassedOrFailed(a.testcg_data.count_fail = 0)>>,
              <<"Reference CG iterations per set", Num(a.refMaxIters)>>,
              <<"Optimized CG iterations per set", Num(a.optMaxIters)>>,
              <<"Total number of reference iterations",
                Num(a.refMaxIters * a.numberOfCgSets)>>,
              <<"Total number of optimized iterations",
                Num(a.optMaxIters * a.numberOfCgSets)>> >>)

IterationSections(d, a) ==
    LET IC == "Iteration Count Information"
        d1 == DocAdd(d, "########## Iterations Summary  ##########", Str(""))
    IN DocGetAddAll(DocAdd(d1, IC, Str("")), IC,
           << <<"Result", PassedOrFailed(a.global_failure = 0)>>,
              <<"Reference CG iterations per set", Num(a.refMaxIters)>>,
              <<"Optimized CG iterations per set", Num(a.optMaxIters)>>,
              <<"Total number of reference iterations",
                Num(a.refMaxIters * a.numberOfCgSets)>>,
              <<"Total number of optimized iterations",
                Num(a.optMaxIters * a.numberOfCgSets)>> >>)

\* lines 372-381
ReproducibilitySectionsMutant(d, a) ==
    LET RI == "Reproducibility Information"
        d1 == DocAdd(d, RI, Str(""))
        d2 == DocAdd(d1, "########## Reproducibility Summary  ##########",
                     Str(""))
    IN DocGetAddAll(d2, RI,
           << <<"Result", PassedOrFailed(a.testnorms_data.pass)>>,
              <<"Scaled residual mean", R(a.testnorms_data.mean)>>,
              <<"Scaled residual variance", R(a.testnorms_data.variance)>> >>)

ReproducibilitySections(d, a) ==
    LET RI == "Reproducibility Information"
        d1 == DocAdd(d, "########## Reproducibility Summary  ##########",
                     Str(""))
    IN DocGetAddAll(DocAdd(d1, RI, Str("")), RI,
           << <<"Result", PassedOrFailed(a.testnorms_data.pass)>>,
              <<"Scaled residual mean", R(a.testnorms_data.mean)>>,
              <<"Scaled residual variance", R(a.testnorms_data.variance)>> >>)


\* lines 383-427
PerformanceSections(d, a, t4) ==
    LET t == a.times
        d1 == DocAdd(d,
                 "########## Performance Summary (times in sec) ##########",
                 Str(""))
        d2 == DocGetAddAll(DocAdd(d1, "Benchmark Time Summary", Str("")),
                  "Benchmark Time Summary",
                  << <<"Optimization phase", R(t[7])>>,
                     <<"DDOT", R(t[1])>>,
                     <<"WAXPBY", R(t[2])>>,
                     <<"SpMV", R(t[3])>>,
                     <<"MG", R(t[5])>>,
                     <<"Total", R(t[0])>> >>)
        d3 == DocGetAddAll(
                  DocAdd(d2, "Floating Point Operations Summary", Str("")),
                  "Floating Point Operations Summary",
                  << <<"Raw DDOT", R(fnops_ddot(a))>>,
                     <<"Raw WAXPBY", R(fnops_waxpby(a))>>,
                     <<"Raw SpMV", R(fnops_sparsemv(a))>>,
                     <<"Raw MG", R(fnops_precond(a))>>,
                     <<"Total", R(fnops(a))>>,
                     <<"Total with convergence overhead", frefnops(a)>> >>)
        d4 == DocGetAddAll(DocAdd(d3, "GB/s Summary", Str("")),
                  "GB/s Summary",
                  << <<"Raw Read B/W",
                       PerGiga(RDiv(R(fnreads(a)), R(t[0])))>>,
                     <<"Raw Write B/W",
                       PerGiga(RDiv(R(fnwrites(a)), R(t[0])))>>,
                     <<"Raw Total B/W",
                       PerGiga(RDiv(R(fnreads(a) + fnwrites(a)), R(t[0])))>>,
                     <<"Total with convergence and optimization phase overhead",
                       PerGiga(RDiv(RAdd(frefnreads(a), frefnwrites(a)),
                                    TimeWithOverhead(a)))>> >>)
        d5 == DocGetAddAll(DocAdd(d4, "GFLOP/s Summary", Str("")),
                  "GFLOP/s Summary",
                  << <<"Raw DDOT", PerGiga(RDiv(R(fnops_ddot(a)), R(t[1])))>>,
                     <<"Raw WAXPBY",
                       PerGiga(RDiv(R(fnops_waxpby(a)), R(t[2])))>>,
                     <<"Raw SpMV",
                       PerGiga(RDiv(R(fnops_sparsemv(a)), R(t[3])))>>,
                     <<"Raw MG", PerGiga(RDiv(R(fnops_precond(a)), R(t[5])))>>,
                     <<"Raw Total", PerGiga(RDiv(R(fnops(a)), R(t[0])))>>,
                     <<"Total with convergence overhead",
                       PerGiga(RDiv(frefnops(a), R(t[0])))>>,
                     <<"Total with convergence and optimization phase overhead",
                       totalGflops(a)>> >>)
        d6 == DocGetAddAll(DocAdd(d5, "User Optimization Overheads", Str("")),
                  "User Optimization Overheads",
                  << <<"Optimization phase time (sec)", R(t[7])>>,
                     <<"Optimization phase time vs reference SpMV+MG time",
                       RDiv(R(t[7]), R(t[8]))>> >>)
    IN DocGetAddAll(DocAdd(d6, "DDOT Timing Variations", Str("")),
           "DDOT Timing Variations",
           << <<"Min DDOT MPI_Allreduce time", t4.t4min>>,
              <<"Max DDOT MPI_Allreduce time", t4.t4max>>,
              <<"Avg DDOT MPI_Allreduce time", t4.t4avg>> >>)

\* line 432
IsValidRunMutant(a) ==
    /\ a.testcg_data.count_fail = 0
    /\ a.testsymmetry_data.count_fail = 0
    /\ a.testnorms_data.pass

IsValidRun(a) ==
    /\ a.testcg_data.count_fail = 0
    /\ a.testsymmetry_data.count_fail = 0
    /\ a.testnorms_data.pass
    /\ a.global_failure = 0

Suboptimal == Str("Performance results are most likely suboptimal")

\* lines 436-452: the notes on reference kernels
ReferenceNotesMutant(d, a) ==
    LET d1 == IF ~a.flags.isDotProductOptimized
              THEN DocGetAdd(d, FinalSummary,
                       "Reference version of ComputeDotProduct used",
                       Suboptimal)
              ELSE d
        d2 == IF ~a.flags.isSpmvOptimized
              THEN DocGetAdd(d1, FinalSummary,
                       "Reference version of ComputeSPMV used", Suboptimal)
              ELSE d1
        d3 == IF ~a.flags.isSpmvOptimized
              THEN IF a.geom.numThreads > 1
                   THEN DocGetAdd(d2, FinalSummary,
                            "Reference version of ComputeMG used and number of threads greater than 1",
                            Str("Performance results are severely suboptimal"))
                   ELSE DocGetAdd(d2, FinalSummary,
                            "Reference version of ComputeMG used", Suboptimal)
              ELSE d2
    IN IF ~a.flags.isWaxpbyOptimized
       THEN DocGetAdd(d3, FinalSummary,
                "Reference version of ComputeWAXPBY used", Suboptimal)
       ELSE d3

ReferenceNotes(d, a) ==
    LET d1 == IF ~a.flags.isDotProductOptimized
              THEN DocGetAdd(d, FinalSummary,
                       "Reference version of ComputeDotProduct used",
                       Suboptimal)
              ELSE d
        d2 == IF ~a.flags.isSpmvOptimized
              THEN DocGetAdd(d1, FinalSummary,
                       "Reference version of ComputeSPMV used", Suboptimal)
              ELSE d1
        d3 == IF ~a.flags.isMgOptimized
              THEN IF a.geom.numThreads > 1
                   THEN DocGetAdd(d2, FinalSummary,
                            "Reference version of ComputeMG used and number of threads greater than 1",
                            Str("Performance results are severely suboptimal"))
                   ELSE DocGetAdd(d2, FinalSummary,
                            "Reference version of ComputeMG used", Suboptimal)
              ELSE d2
    IN IF ~a.flags.isWaxpbyOptimized
       THEN DocGetAdd(d3, FinalSummary,
                "Reference version of ComputeWAXPBY used", Suboptimal)
       ELSE d3

\* lines 453-466: what a valid run says about submitting the results
SubmissionNotesMutant(d, a) ==
    IF a.times[0] > minOfficialTime
    THEN DocGetAdd(d, FinalSummary,
             "Please upload results from the YAML file contents to",
             Str(UploadURL))
    ELSE LET d1 == DocGetAdd(d, FinalSummary,
                       "Results are valid but execution time (sec) is",
                       R(a.times[0]))
         IN IF a.quickPath
            THEN DocGetAdd(DocGetAdd(d1, FinalSummary, QuickPathKey, Str("Results are official for legacy installed systems with confirmation from the HPCG Benchmark leaders.")),
                     FinalSummary,
                     "     After confirmation please upload results from the YAML file contents to",
                     Str(UploadURL))
            ELSE DocGetAdd(d1, FinalSummary, MinTimeKey, R(minOfficialTime))

SubmissionNotesMutantQP(d, a) ==
    IF a.times[0] >= minOfficialTime
    THEN DocGetAdd(d, FinalSummary,
             "Please upload results from the YAML file contents to",
             Str(UploadURL))
    ELSE LET d1 == DocGetAdd(d, FinalSummary,
                       "Results are valid but execution time (sec) is",
                       R(a.times[0]))
         IN IF ~a.quickPath
            THEN DocGetAdd(DocGetAdd(d1, FinalSummary, QuickPathKey, Str("Results are official for legacy installed systems with confirmation from the HPCG Benchmark leaders.")),
                     FinalSummary,
                     "     After confirmation please upload results from the YAML file contents to",
                     Str(UploadURL))
            ELSE DocGetAdd(d1, FinalSummary, MinTimeKey, R(minOfficialTime))

SubmissionNotes(d, a) ==
    IF a.times[0] >= minOfficialTime
    THEN DocGetAdd(d, FinalSummary,
             "Please upload results from the YAML file contents to",
             Str(UploadURL))
    ELSE LET d1 == DocGetAdd(d, FinalSummary,
                       "Results are valid but execution time (sec) is",
                       R(a.times[0]))
         IN IF a.quickPath
            THEN DocGetAdd(DocGetAdd(d1, FinalSummary, QuickPathKey, Str("Results are official for legacy installed systems with confirmation from the HPCG Benchmark leaders.")),
                     FinalSummary,
                     "     After confirmation please upload results from the YAML file contents to",
                     Str(UploadURL))
            ELSE DocGetAdd(d1, FinalSummary, MinTimeKey, R(minOfficialTime))

\* lines 431-471
FinalSummarySection(d, a, valid) ==
    LET d1 == DocAdd(d, FinalSummary, Str(""))
    IN IF valid
       THEN LET d2 == DocGetAdd(d1, FinalSummary, ValidKey, totalGflops(a))
                d3 == DocGetAdd(d2, FinalSummary,
                          "    HPCG 2.4 Rating (for historical value) is",
                          totalGflops24(a))
            IN SubmissionNotes(ReferenceNotes(d3, a), a)
       ELSE DocGetAddAll(d1, FinalSummary,
                << <<InvalidKey, Str("INVALID.")>>,
                   <<"Please review the YAML file contents",
                     Str("You may NOT submit these results for consideration.")>> >>)


----------------------------------------------------------------------------
(* allReduce over the ranks' times[4]; a.t4all[r] is the value rank r      *)
(* arrives with.                                                           *)
RECURSIVE SumUpTo(_, _)
SumUpTo(f, n) == IF n < 0 THEN 0 ELSE f[n] + SumUpTo(f, n - 1)

AllReduceMin(f) == CHOOSE v \in {f[r] : r \in DOMAIN f} :
                       \A r \in DOMAIN f : v <= f[r]
AllReduceMax(f) == CHOOSE v \in {f[r] : r \in DOMAIN f} :
                       \A r \in DOMAIN f : v >= f[r]
AllReduceSum(f) == SumUpTo(f, Cardinality(DOMAIN f) - 1)

----------------------------------------------------------------------------
(* Bounds and input sets of the ReportResults specification.               *)
MaxRanks == 2
MaxMgLevels == 2

CountFailVals == {0, 1}
GlobalFailureVals == {0, 1}
Times0Vals == {1799, 1800, 3600}

\* local grid of 4 x 4 x 4 points per rank
LocalDim == 4
StencilNnz == 27

\* level k (1 = finest) of a hierarchy of n levels on size ranks; every
\* coarser level has an eighth of the rows
RECURSIVE Pow8(_)
Pow8(k) == IF k = 0 THEN 1 ELSE 8 * Pow8(k - 1)

\* the MGData of a level that has a coarser one
MGData == [numberOfPresmootherSteps |-> 1, numberOfPostsmootherSteps |-> 1]

LevelData(size, k, mgData) ==
    LET rows == (LocalDim * LocalDim * LocalDim * size) \div Pow8(k - 1)
    IN [totalNumberOfRows |-> rows,
        totalNumberOfNonzeros |-> StencilNnz * rows - 2 * k,
        mgData |-> mgData]

\* a chain of len matrices, finest first, whose first withMg levels have an
\* MGData
Chain(size, len, withMg) ==
    [k \in 1..len |->
        LevelData(size, k, IF k <= withMg THEN MGData ELSE nullptr)]

Geometry(sz, rk, nt, nx, ny, nz) ==
    [size |-> sz, rank |-> rk, numThreads |-> nt,
     nx |-> nx, ny |-> ny, nz |-> nz,
     npx |-> sz, npy |-> 1, npz |-> 1, ipx |-> rk, ipy |-> 0, ipz |-> 0,
     stencilSize |-> StencilNnz]

\* the geometries of the ranks of a run: rank < size
ReportGeometries ==
    { Geometry(sz, rk, 1, LocalDim, LocalDim, LocalDim) :
      sz \in 1..MaxRanks, rk \in 0..(MaxRanks - 1) }

\* the optimization flags of the matrix: all at their initial value, or all set
ReportFlags ==
    { [isDotProductOptimized |-> b, isSpmvOptimized |-> b,
       isMgOptimized |-> b, isWaxpbyOptimized |-> b] : b \in BOOLEAN }

\* the numbers of CG sets and of iterations per set of the reference and of
\* the optimized runs
IterationCounts ==
    { [numberOfCgSets |-> 1, refMaxIters |-> 2, optMaxIters |-> 2],
      [numberOfCgSets |-> 2, refMaxIters |-> 3, optMaxIters |-> 2] }

MakeArgs(g, fl, n, it, t0, cf, sf, np, gf, qp) ==
    [geom |-> g,
     A |-> Chain(g.size, n, n - 1),
     flags |-> fl,
     numberOfMgLevels |-> n,
     numberOfCgSets |-> it.numberOfCgSets,
     refMaxIters |-> it.refMaxIters,
     optMaxIters |-> it.optMaxIters,
     times |-> [i \in 0..9 |-> IF i = 0 THEN t0 ELSE i],
     t4all |-> [r \in 0..(g.size - 1) |-> IF r = g.rank THEN 4 ELSE 4 + r],
     testcg_data |-> [count_fail |-> cf, niters_max_no_prec |-> 12,
                      expected_niters_no_prec |-> 12, niters_max_prec |-> 2,
                      expected_niters_prec |-> 2],
     testsymmetry_data |-> [count_fail |-> sf, depsym_spmv |-> 0,
                            depsym_mg |-> 0],
     testnorms_data |-> [pass |-> np, mean |-> 0, variance |-> 0],
     global_failure |-> gf,
     quickPath |-> qp]

ReportArgs ==
    { MakeArgs(g, fl, n, it, t0, cf, sf, np, gf, qp) :
      g \in {h \in ReportGeometries : h.rank < h.size},
      fl \in ReportFlags, n \in 1..MaxMgLevels, it \in IterationCounts,
      t0 \in Times0Vals,
      cf \in CountFailVals, sf \in CountFailVals, np \in BOOLEAN,
      gf \in GlobalFailureVals, qp \in BOOLEAN }

\* hierarchies that are not a chain of exactly numberOfMgLevels matrices:
\* one matrix short, one matrix long, or without the MGData of a level that
\* has a coarser one; next to them, the well-formed ones.  The finest
\* matrix is passed by reference, so a chain has at least one matrix.
ChainShapes == {"exact", "short", "long", "noMgData"}

ChainOf(size, n, shape) ==
    CASE shape = "exact" -> Chain(size, n, n - 1)
      [] shape = "short" -> Chain(size, n - 1, n - 2)
      [] shape = "long" -> Chain(size, n + 1, n)
      [] shape = "noMgData" -> Chain(size, n, n - 2)

ChainCases ==
    { c \in (1..MaxMgLevels) \X ChainShapes :
      c[1] >= 2 \/ c[2] \in {"exact", "long"} }

ChainArgs ==
    { [MakeArgs(g, fl, c[1], it, t0, 0, 0, TRUE, 0, FALSE)
          EXCEPT !.A = ChainOf(g.size, c[1], c[2])] :
      g \in {h \in ReportGeometries : h.rank < h.size},
      fl \in ReportFlags, c \in ChainCases,
      it \in {i \in IterationCounts : i.numberOfCgSets = 1},
      t0 \in Times0Vals }

\* runs that differ in the optimization flags, each set or not on its own,
\* in the number of threads and in the verdict
MaxThreads == 2

AllFlags ==
    [isDotProductOptimized : BOOLEAN, isSpmvOptimized : BOOLEAN,
     isMgOptimized : BOOLEAN, isWaxpbyOptimized : BOOLEAN]

FlagArgs ==
    { MakeArgs(Geometry(sz, rk, nt, LocalDim, LocalDim, LocalDim), fl, 1,
               [numberOfCgSets |-> 1, refMaxIters |-> 2, optMaxIters |-> 2],
               3600, cf, 0, TRUE, 0, FALSE) :
      sz \in {MaxRanks}, rk \in 0..(MaxRanks - 1), nt \in 1..MaxThreads,
      fl \in AllFlags, cf \in CountFailVals }

FlagInit ==
    /\ args \in FlagArgs
    /\ rpc = "call"
    /\ t4red = [t4min |-> R(0), t4max |-> R(0), t4avg |-> R(0)]
    /\ doc = <<>>
    /\ isValidRun = FALSE
    /\ yaml = FALSE

ChainInit ==
    /\ args \in ChainArgs
    /\ rpc = "call"
    /\ t4red = [t4min |-> R(0), t4max |-> R(0), t4avg |-> R(0)]
    /\ doc = <<>>
    /\ isValidRun = FALSE
    /\ yaml = FALSE

ReportInit ==
    /\ args \in ReportArgs
    /\ rpc = "call"
    /\ t4red = [t4min |-> R(0), t4max |-> R(0), t4avg |-> R(0)]
    /\ doc = <<>>
    /\ isValidRun = FALSE
    /\ yaml = FALSE

\* lines 114-122
RR_AllReduce ==
    /\ rpc = "call"
    /\ t4red' = [t4min |-> R(AllReduceMin(args.t4all)),
                 t4max |-> R(AllReduceMax(args.t4all)),
                 t4avg |-> RDiv(R(AllReduceSum(args.t4all)),
                                R(args.geom.size))]
    /\ rpc' = "reduced"
    /\ UNCHANGED <<args, doc, isValidRun, yaml>>
    /\ UNCHANGED <<lvars, mvars, hvars, xvars>>

\* line 126, when the rank is not 0: nothing is reported
RR_NotRankZero ==
    /\ rpc = "reduced"
    /\ args.geom.rank # 0
    /\ rpc' = "done"
    /\ UNCHANGED <<args, t4red, doc, isValidRun, yaml>>
    /\ UNCHANGED <<lvars, mvars, hvars, xvars>>

\* a cursor past the last matrix of the chain is the null pointer
IsNull(a, cursor) == cursor > Len(a.A)

\* "for (int i = 1; i < numberOfMgLevels; ++i) { ...; Af = Af->Ac; }": the
\* matrices the cursor points to in the iterations, in order, and the
\* cursor after the loop
RECURSIVE CursorWalk(_, _, _, _)
CursorWalk(a, i, cursor, visited) ==
    IF i < a.numberOfMgLevels
    THEN CursorWalk(a, i + 1, cursor + 1, Append(visited, cursor))
    ELSE [visited |-> visited, cursor |-> cursor]

\* lines 143-153 and 172-186: Af = &A
FlopLoopWalk(a) == CursorWalk(a, 1, 1, <<>>)

\* lines 231-265: Af = A.Ac
MemoryLoopWalkMutant(a) == CursorWalk(a, 1, 1, <<>>)

MemoryLoopWalk(a) == CursorWalk(a, 1, 2, <<>>)

\* lines 307-316: Af = &A, and the body reads Af->Ac
CoarseGridsWalk(a) == CursorWalk(a, 1, 1, <<>>)

\* lines 231-267: the cursor Af of the memory usage loop starts at A.Ac and
\* moves to the next coarser matrix once per level
MemoryLoopCursor(a) == MemoryLoopWalk(a).cursor

Range(q) == {q[j] : j \in 1..Len(q)}

\* Af->mgData is the null pointer
MgDataIsNull(a, cursor) == Level(a, cursor).mgData = nullptr

\* the FLOP and bandwidth loops dereference Af and Af->mgData in every
\* iteration and Af once more after the loop (lines 155, 188, 189)
NullDerefFlopLoop(a) ==
    LET w == FlopLoopWalk(a)
    IN \/ \E c \in Range(w.visited) : IsNull(a, c) \/ MgDataIsNull(a, c)
       \/ IsNull(a, w.cursor)

\* the memory usage loop dereferences Af in every iteration
NullDerefMemoryLoop(a) ==
    \E c \in Range(MemoryLoopWalk(a).visited) : IsNull(a, c)

\* the coarse grids loop dereferences Af, Af->Ac and Af->mgData
NullDerefCoarseGridsLoop(a) ==
    \E c \in Range(CoarseGridsWalk(a).visited) :
        IsNull(a, c) \/ IsNull(a, c + 1) \/ MgDataIsNull(a, c)

\* lines 126-331 on rank 0.  Dereferencing a null pointer is undefined
\* behaviour: the model follows such a run no further ("ub").
\* assert(Af == 0) of line 267 aborts the run when the cursor is not at the
\* end of the chain.
RR_ProblemAndMemory ==
    /\ rpc = "reduced"
    /\ args.geom.rank = 0
    /\ IF NullDerefFlopLoop(args) \/ NullDerefMemoryLoop(args)
       THEN /\ doc' = doc
            /\ rpc' = "ub"
       ELSE IF ~IsNull(args, MemoryLoopCursor(args))
       THEN /\ doc' = doc
            /\ rpc' = "aborted"
       ELSE IF NullDerefCoarseGridsLoop(args)
       THEN /\ doc' = doc
            /\ rpc' = "ub"
       ELSE /\ doc' = MemorySections(
                          ProblemSections(HeaderSections(args), args), args)
            /\ rpc' = "vv"
    /\ UNCHANGED <<args, t4red, isValidRun, yaml>>
    /\ UNCHANGED <<lvars, mvars, hvars, xvars>>

\* lines 333-381
RR_Validation ==
    /\ rpc = "vv"
    /\ doc' = ReproducibilitySections(
                 IterationSections(ValidationSections(doc, args), args), args)
    /\ rpc' = "perf"
    /\ UNCHANGED <<args, t4red, isValidRun, yaml>>
    /\ UNCHANGED <<lvars, mvars, hvars, xvars>>

\* lines 383-427
RR_Performance ==
    /\ rpc = "perf"
    /\ doc' = PerformanceSections(doc, args, t4red)
    /\ rpc' = "final"
    /\ UNCHANGED <<args, t4red, isValidRun, yaml>>
    /\ UNCHANGED <<lvars, mvars, hvars, xvars>>

\* lines 431-471
RR_FinalSummary ==
    /\ rpc = "final"
    /\ isValidRun' = IsValidRun(args)
    /\ doc' = FinalSummarySection(doc, args, isValidRun')
    /\ rpc' = "gen"
    /\ UNCHANGED <<args, t4red, yaml>>
    /\ UNCHANGED <<lvars, mvars, hvars, xvars>>

\* line 473
RR_GenerateYAML ==
    /\ rpc = "gen"
    /\ yaml' = TRUE
    /\ rpc' = "done"
    /\ UNCHANGED <<args, t4red, doc, isValidRun>>
    /\ UNCHANGED <<lvars, mvars, hvars, xvars>>

ReportNext ==
    \/ RR_AllReduce
    \/ RR_NotRankZero
    \/ RR_ProblemAndMemory
    \/ RR_Validation
    \/ RR_Performance
    \/ RR_FinalSummary
    \/ RR_GenerateYAML


----------------------------------------------------------------------------
(* LogicalSparseMatrix: the arrays it bundles and their life cycle.        *)

\* mLogicalItems followed by mLogicalItemsNoAccess (mPopulateRegionList)
mLogicalItems ==
    <<"geoms", "sclrs", "nonzerosInRow", "mtxIndG", "mtxIndL",
      "matrixValues", "matrixDiagonal", "localToGlobalMap", "dcAllreduceSum",
      "neighbors", "sendLength", "synchronizers", "pullBEs">>
mLogicalItemsNoAccess == <<"pullBuffer">>

Members == {mLogicalItems[i] : i \in 1..Len(mLogicalItems)}
           \cup {mLogicalItemsNoAccess[i] : i \in 1..Len(mLogicalItemsNoAccess)}

\* number of points of the global grid
getGlobalXYZ(geom) == geom.nx * geom.ny * geom.nz * geom.size

\* a LogicalArray: allocate(length), partition(nParts), deallocate
FreshArray == [length |-> 0, nAlloc |-> 0, nParts |-> 0, launchDomain |-> 0,
               nDealloc |-> 0]
ArrayAllocate(arr, len) == [arr EXCEPT !.length = len, !.nAlloc = @ + 1]
ArrayPartition(arr, nParts) ==
    [arr EXCEPT !.nParts = nParts, !.launchDomain = nParts]
ArrayDeallocate(arr) == [arr EXCEPT !.nDealloc = @ + 1]

\* the calls of allocate, in order: <<member, length>>
AllocateCallsMutant(geom) ==
    LET size == geom.size
        globalXYZ == getGlobalXYZ(geom)
        stencilSize == geom.stencilSize
        maxNumNeighbors == geom.stencilSize - 1
    IN << <<"geoms", size>>,
          <<"sclrs", size>>,
          <<"nonzerosInRow", globalXYZ>>,
          <<"mtxIndG", globalXYZ * stencilSize>>,
          <<"mtxIndL", globalXYZ * maxNumNeighbors>>,
          <<"matrixValues", globalXYZ * stencilSize>>,
          <<"matrixDiagonal", globalXYZ>>,
          <<"localToGlobalMap", globalXYZ>>,
          <<"dcAllreduceSum", size>>,
          <<"neighbors", size * maxNumNeighbors>>,
          <<"sendLength", size * maxNumNeighbors>>,
          <<"synchronizers", size>>,
          <<"pullBEs", size * maxNumNeighbors>>,
          <<"pullBuffer", globalXYZ>> >>

AllocateCalls(geom) ==
    LET size == geom.size
        globalXYZ == getGlobalXYZ(geom)
        stencilSize == geom.stencilSize
        maxNumNeighbors == geom.stencilSize - 1
    IN << <<"geoms", size>>,
          <<"sclrs", size>>,
          <<"nonzerosInRow", globalXYZ>>,
          <<"mtxIndG", globalXYZ * stencilSize>>,
          <<"mtxIndL", globalXYZ * stencilSize>>,
          <<"matrixValues", globalXYZ * stencilSize>>,
          <<"matrixDiagonal", globalXYZ>>,
          <<"localToGlobalMap", globalXYZ>>,
          <<"dcAllreduceSum", size>>,
          <<"neighbors", size * maxNumNeighbors>>,
          <<"sendLength", size * maxNumNeighbors>>,
          <<"synchronizers", size>>,
          <<"pullBEs", size * maxNumNeighbors>>,
          <<"pullBuffer", globalXYZ>> >>

\* the members partition calls partition on, in order
PartitionCallsMutant ==
    <<"geoms", "sclrs", "nonzerosInRow", "mtxIndG", "mtxIndL",
      "matrixValues", "matrixDiagonal", "localToGlobalMap", "dcAllreduceSum",
      "neighbors", "sendLength", "synchronizers", "pullBEs">>

PartitionCalls ==
    <<"geoms", "sclrs", "nonzerosInRow", "mtxIndG", "mtxIndL",
      "matrixValues", "matrixDiagonal", "localToGlobalMap", "dcAllreduceSum",
      "neighbors", "sendLength", "synchronizers", "pullBEs", "pullBuffer">>

\* the members deallocate calls deallocate on, in order
DeallocateCalls ==
    <<"geoms", "sclrs", "mtxIndG", "mtxIndL", "nonzerosInRow",
      "matrixValues", "matrixDiagonal", "localToGlobalMap", "dcAllreduceSum",
      "neighbors", "sendLength", "synchronizers", "pullBEs", "pullBEs">>

RECURSIVE ApplyAllocate(_, _)
ApplyAllocate(arrs, calls) ==
    IF calls = <<>> THEN arrs
    ELSE ApplyAllocate(
             [arrs EXCEPT ![calls[1][1]] = ArrayAllocate(@, calls[1][2])],
             Tail(calls))

RECURSIVE ApplyPartition(_, _, _)
ApplyPartition(arrs, names, nParts) ==
    IF names = <<>> THEN arrs
    ELSE ApplyPartition(
             [arrs EXCEPT ![names[1]] = ArrayPartition(@, nParts)],
             Tail(names), nParts)

RECURSIVE ApplyDeallocate(_, _)
ApplyDeallocate(arrs, names) ==
    IF names = <<>> THEN arrs
    ELSE ApplyDeallocate([arrs EXCEPT ![names[1]] = ArrayDeallocate(@)],
                         Tail(names))

\* the replication loop of mPopulateDynamicCollectives: dcsd[i] = dc for
\* 0 <= i < nArrivals; the stores that fall inside the mapped region
ReplicateMutant(region, dc, nArrivals) ==
    [i \in DOMAIN region |-> IF 0 < i /\ i < nArrivals THEN dc ELSE region[i]]

Replicate(region, dc, nArrivals) ==
    [i \in DOMAIN region |-> IF i < nArrivals THEN dc ELSE region[i]]

\* a partition into nParts equal-sized disjoint sub-regions: the number of
\* entries of each sub-region
SubRegionSize(arr) == arr.length \div arr.nParts

\* the geometry of rank i of the run geom describes
RankGeometry(geom, i) == [geom EXCEPT !.rank = i, !.ipx = i]

\* rows of a rank: its nx * ny * nz grid points
localNumberOfRows(geom) == geom.nx * geom.ny * geom.nz

\* points along one axis that a rank references: its own n, and one layer
\* of each neighbouring rank along that axis
ExtentWithHalo(n, ip, np) ==
    n + (IF ip > 0 THEN 1 ELSE 0) + (IF ip < np - 1 THEN 1 ELSE 0)

\* columns of a rank: its rows and the external (halo) points its 27-point
\* stencil references
localNumberOfColumns(geom) ==
    ExtentWithHalo(geom.nx, geom.ipx, geom.npx)
        * ExtentWithHalo(geom.ny, geom.ipy, geom.npy)
        * ExtentWithHalo(geom.nz, geom.ipz, geom.npz)

numberOfExternalValues(geom) ==
    localNumberOfColumns(geom) - localNumberOfRows(geom)

\* bounds of the life-cycle specification
MaxParts == 2
MaxLocalDim == 3
LocalDims == 1..MaxLocalDim

LifecycleGeometries ==
    { Geometry(sz, rk, 1, nx, ny, nz) :
      sz \in 1..MaxParts, rk \in {0}, nx \in LocalDims, ny \in LocalDims,
      nz \in LocalDims }

LifecycleInit ==
    /\ lgeom \in LifecycleGeometries
    /\ arrays = [m \in Members |-> FreshArray]
    /\ allocLog = <<>>
    /\ deallocLog = <<>>
    /\ launchDomain = 0
    /\ nPartsArg = 0
    /\ collectives = <<>>
    /\ dcRegion = <<>>
    /\ oobWrite = FALSE
    /\ lpc = "constructed"

Names(calls) == [i \in 1..Len(calls) |-> calls[i][1]]

\* LogicalSparseMatrix::allocate(geom)
Allocate ==
    /\ lpc = "constructed"
    /\ arrays' = ApplyAllocate(arrays, AllocateCalls(lgeom))
    /\ allocLog' = allocLog \o Names(AllocateCalls(lgeom))
    \* the region of dcAllreduceSum: entries 0..size-1, not yet written
    /\ dcRegion' = [i \in 0..(lgeom.size - 1) |-> 0]
    /\ lpc' = "allocated"
    /\ UNCHANGED <<lgeom, deallocLog, launchDomain, nPartsArg, collectives,
                   oobWrite>>
    /\ UNCHANGED <<rvars, mvars, hvars, xvars>>

\* LogicalSparseMatrix::partition(nParts), mPopulateDynamicCollectives
\* included.  The handle of a collective is its index in collectives.
Partition(nParts) ==
    /\ lpc = "allocated"
    /\ nPartsArg' = nParts
    /\ arrays' = ApplyPartition(arrays, PartitionCalls, nParts)
    /\ collectives' = Append(collectives, nParts)
    /\ dcRegion' = Replicate(dcRegion, Len(collectives) + 1, nParts)
    /\ oobWrite' = (oobWrite \/ nParts > arrays["dcAllreduceSum"].length)
    /\ launchDomain' = arrays'["geoms"].launchDomain
    /\ lpc' = "partitioned"
    /\ UNCHANGED <<lgeom, allocLog, deallocLog>>
    /\ UNCHANGED <<rvars, mvars, hvars, xvars>>

\* LogicalSparseMatrix::deallocate
Deallocate ==
    /\ lpc \in {"allocated", "partitioned"}
    /\ arrays' = ApplyDeallocate(arrays, DeallocateCalls)
    /\ deallocLog' = deallocLog \o DeallocateCalls
    /\ lpc' = "deallocated"
    /\ UNCHANGED <<lgeom, allocLog, launchDomain, nPartsArg, collectives,
                   dcRegion, oobWrite>>
    /\ UNCHANGED <<rvars, mvars, hvars, xvars>>

LifecycleNext ==
    \/ Allocate
    \/ \E nParts \in 1..MaxParts : Partition(nParts)
    \/ Deallocate


----------------------------------------------------------------------------
(* PopulateGlobalToLocalMap.  A std::map is a function from its keys to    *)
(* their values; operator[] inserts the key or overwrites its value.       *)
MapPut(m, k, v) == [x \in (DOMAIN m) \cup {k} |-> IF x = k THEN v ELSE m[x]]

gnx(g) == g.nx * g.npx
gny(g) == g.ny * g.npy

\* line 531
CurrentLocalRowMutant(g, iz, iy, ix) == iz * g.nx * g.ny + iy * g.ny + ix

CurrentLocalRow(g, iz, iy, ix) == iz * g.nx * g.ny + iy * g.nx + ix

\* lines 526, 528, 530, 532
CurrentGlobalRowMutant(g, iz, iy, ix) ==
    LET giz == g.ipz * g.nz + iz
        giy == g.ipy * g.ny + iy
        gix == g.ipx * g.nx + ix
    IN giz * gnx(g) * gny(g) + giy * gny(g) + gix

CurrentGlobalRow(g, iz, iy, ix) ==
    LET giz == g.ipz * g.nz + iz
        giy == g.ipy * g.ny + iy
        gix == g.ipx * g.nx + ix
    IN giz * gnx(g) * gny(g) + giy * gnx(g) + gix

\* the three nested loops of lines 525-536
RECURSIVE LoopX(_, _, _, _, _)
LoopX(m, g, iz, iy, ix) ==
    IF ix < g.nx
    THEN LoopX(MapPut(m, CurrentGlobalRow(g, iz, iy, ix),
                      CurrentLocalRow(g, iz, iy, ix)),
               g, iz, iy, ix + 1)
    ELSE m

RECURSIVE LoopY(_, _, _, _)
LoopY(m, g, iz, iy) ==
    IF iy < g.ny THEN LoopY(LoopX(m, g, iz, iy, 0), g, iz, iy + 1) ELSE m

RECURSIVE LoopZ(_, _, _)
LoopZ(m, g, iz) ==
    IF iz < g.nz THEN LoopZ(LoopY(m, g, iz, 0), g, iz + 1) ELSE m

\* bounds of the map specification
MaxN == 2
MaxNp == 2

\* geometries of the ranks of a process grid: ipx < npx, ipy < npy, ipz < npz
MapGeometries ==
    { [size |-> px * py * pz, rank |-> ix + iy * px + iz * px * py,
       numThreads |-> 1, nx |-> nx, ny |-> ny, nz |-> nz,
       npx |-> px, npy |-> py, npz |-> pz, ipx |-> ix, ipy |-> iy, ipz |-> iz,
       stencilSize |-> StencilNnz] :
      nx \in 1..MaxN, ny \in 1..MaxN, nz \in 1..MaxN,
      px \in 1..MaxNp, py \in 1..MaxNp, pz \in 1..MaxNp,
      ix \in 0..(MaxNp - 1), iy \in 0..(MaxNp - 1), iz \in 0..(MaxNp - 1) }

MapInit ==
    /\ mgeom \in {g \in MapGeometries :
                     g.ipx < g.npx /\ g.ipy < g.npy /\ g.ipz < g.npz}
    /\ globalToLocalMap = <<>>
    /\ mpc = "fresh"

\* PopulateGlobalToLocalMap(A)
PopulateGlobalToLocalMap ==
    /\ globalToLocalMap' = LoopZ(globalToLocalMap, mgeom, 0)
    /\ mpc' = "populated"
    /\ UNCHANGED mgeom
    /\ UNCHANGED <<rvars, lvars, hvars, xvars>>

MapNext == PopulateGlobalToLocalMap


----------------------------------------------------------------------------
(* PopulateGlobalToLocalMap called by every rank of a process grid, each   *)
(* on its own matrix, in any order.                                        *)
GridRanks == 8
GridN == 2

\* process grids of at most GridRanks ranks, every rank with the same
\* local dimensions
ProcessGrids ==
    { gr \in [nx : 1..GridN, ny : 1..GridN, nz : 1..GridN,
              npx : 1..GridRanks, npy : 1..GridRanks, npz : 1..GridRanks] :
        gr.npx * gr.npy * gr.npz <= GridRanks }

GridSize(gr) == gr.npx * gr.npy * gr.npz

\* the Geometry of rank r: rank = ipx + ipy*npx + ipz*npx*npy
GridGeometry(gr, r) ==
    [size |-> GridSize(gr), rank |-> r, numThreads |-> 1,
     nx |-> gr.nx, ny |-> gr.ny, nz |-> gr.nz,
     npx |-> gr.npx, npy |-> gr.npy, npz |-> gr.npz,
     ipx |-> r % gr.npx,
     ipy |-> (r \div gr.npx) % gr.npy,
     ipz |-> r \div (gr.npx * gr.npy),
     stencilSize |-> StencilNnz]

GridInit ==
    /\ pgrid \in ProcessGrids
    /\ pmaps = [r \in 0..(GridSize(pgrid) - 1) |-> <<>>]
    /\ ppc = [r \in 0..(GridSize(pgrid) - 1) |-> "fresh"]

\* PopulateGlobalToLocalMap(A) in the task of rank r
PopulateRank(r) ==
    /\ r \in DOMAIN pmaps
    /\ ppc[r] = "fresh"
    /\ pmaps' = [pmaps EXCEPT ![r] = LoopZ(@, GridGeometry(pgrid, r), 0)]
    /\ ppc' = [ppc EXCEPT ![r] = "populated"]
    /\ UNCHANGED pgrid
    /\ UNCHANGED <<rvars, lvars, mvars, hvars, cgvars, uvars, cvars>>

GridNext == \E r \in 0..(GridRanks - 1) : PopulateRank(r)

GridIdle ==
    /\ pgrid = [none |-> TRUE]
    /\ pmaps = <<>>
    /\ ppc = <<>>


----------------------------------------------------------------------------
(* One halo exchange per generation, over the phase barriers of            *)
(* Synchronizers: every rank owns one barrier (mine) and holds a handle to *)
(* the barrier of each neighbour (neighbors[]).  The value a rank puts in  *)
(* the exchange of generation g carries the tag g + 1.                     *)
HaloRanks == 2
MaxGen == 2

Ranks == 0..(HaloRanks - 1)
\* every other rank is a neighbour
Neighbors(r) == Ranks \ {r}

HaloInit ==
    /\ hpc = [r \in Ranks |-> "wait_mine"]
    /\ hgen = [r \in Ranks |-> 0]
    /\ pbTriggered = [r \in Ranks |-> 0]
    /\ pbArrivals = [r \in Ranks |-> 0]
    /\ puts = {}
    /\ pullBuffer = [r \in Ranks |-> [n \in Neighbors(r) |-> 0]]
    /\ haloRead = [r \in Ranks |->
                      [n \in Neighbors(r) |-> [want |-> 0, got |-> 0]]]

\* the writer of rank r has arrived at r's barrier once none of the puts
\* it issued is still in flight
WriterArrivedMutant(r, inflight) == TRUE

WriterArrived(r, inflight) == \A p \in inflight : p.from # r

\* 1. wait on the owned barrier at generation g
WaitMine(r) ==
    /\ hpc[r] = "wait_mine"
    /\ hgen[r] < MaxGen
    /\ pbTriggered[r] >= hgen[r]
    /\ hpc' = [hpc EXCEPT ![r] = "put"]
    /\ UNCHANGED <<hgen, pbTriggered, pbArrivals, puts, pullBuffer, haloRead>>
    /\ UNCHANGED <<rvars, lvars, mvars, xvars>>

\* 2. issue an asynchronous put to every neighbour
IssuePuts(r) ==
    /\ hpc[r] = "put"
    /\ puts' = puts \cup {[from |-> r, to |-> n, gen |-> hgen[r] + 1] :
                             n \in Neighbors(r)}
    /\ hpc' = [hpc EXCEPT ![r] = "advance"]
    /\ UNCHANGED <<hgen, pbTriggered, pbArrivals, pullBuffer, haloRead>>
    /\ UNCHANGED <<rvars, lvars, mvars, xvars>>

\* the runtime completes a put: the value lands in the target's pullBuffer
CompletePut(p) ==
    /\ p \in puts
    /\ puts' = puts \ {p}
    /\ pullBuffer' = [pullBuffer EXCEPT ![p.to][p.from] = p.gen]
    /\ UNCHANGED <<hpc, hgen, pbTriggered, pbArrivals, haloRead>>
    /\ UNCHANGED <<rvars, lvars, mvars, xvars>>

\* 3. advance the owned barrier to generation g + 1; its one arrival is the
\* local writer
Advance(r) ==
    /\ hpc[r] = "advance"
    /\ pbArrivals' = [pbArrivals EXCEPT ![r] = 1]
    /\ hpc' = [hpc EXCEPT ![r] = "wait_neighbors"]
    /\ UNCHANGED <<hgen, pbTriggered, puts, pullBuffer, haloRead>>
    /\ UNCHANGED <<rvars, lvars, mvars, xvars>>

\* the barrier of rank r triggers its next generation when its arrival is in
Trigger(r) ==
    /\ pbArrivals[r] = 1
    /\ WriterArrived(r, puts)
    /\ pbTriggered' = [pbTriggered EXCEPT ![r] = @ + 1]
    /\ pbArrivals' = [pbArrivals EXCEPT ![r] = 0]
    /\ UNCHANGED <<hpc, hgen, puts, pullBuffer, haloRead>>
    /\ UNCHANGED <<rvars, lvars, mvars, xvars>>

\* 4. wait on every neighbour's barrier at generation g + 1
WaitNeighbors(r) ==
    /\ hpc[r] = "wait_neighbors"
    /\ \A n \in Neighbors(r) : pbTriggered[n] >= hgen[r] + 1
    /\ hpc' = [hpc EXCEPT ![r] = "read"]
    /\ UNCHANGED <<hgen, pbTriggered, pbArrivals, puts, pullBuffer, haloRead>>
    /\ UNCHANGED <<rvars, lvars, mvars, xvars>>

\* the local SpMV reads the halo slots; the next exchange follows
ReadHalo(r) ==
    /\ hpc[r] = "read"
    /\ haloRead' = [haloRead EXCEPT ![r] =
                       [n \in Neighbors(r) |->
                           [want |-> hgen[r] + 1, got |-> pullBuffer[r][n]]]]
    /\ hgen' = [hgen EXCEPT ![r] = @ + 1]
    /\ hpc' = [hpc EXCEPT ![r] = "wait_mine"]
    /\ UNCHANGED <<pbTriggered, pbArrivals, puts, pullBuffer>>
    /\ UNCHANGED <<rvars, lvars, mvars, xvars>>

HaloNext ==
    \/ \E r \in Ranks : WaitMine(r)
    \/ \E r \in Ranks : IssuePuts(r)
    \/ \E p \in puts : CompletePut(p)
    \/ \E r \in Ranks : Advance(r)
    \/ \E r \in Ranks : Trigger(r)
    \/ \E r \in Ranks : WaitNeighbors(r)
    \/ \E r \in Ranks : ReadHalo(r)

----------------------------------------------------------------------------
(* The CG driver: r <- b - A*x, normr0 <- sqrt(r.r), then for k = 1 ..     *)
(* maxIter one iteration that ends with normr <- sqrt(r.r) and leaves the  *)
(* loop if normr/normr0 <= tolerance.  The vector arithmetic is abstracted *)
(* to the norm it yields: cgin.norms[k] is normr of iteration k.           *)
MaxIter == 3
NormVals == {0, 1, 2}
ToleranceVals == {Ratio(0 - 1, 1), Ratio(0, 1), Ratio(1, 2)}

CGInputs ==
    UNION { { [maxIter |-> m, tolerance |-> tol, normr0 |-> n0, norms |-> ns] :
              tol \in ToleranceVals, n0 \in NormVals,
              ns \in [1..m -> NormVals] } : m \in 0..MaxIter }

\* normr/normr0 <= tolerance in double arithmetic: with normr0 = 0 the
\* quotient is an infinity or a NaN, which no finite tolerance bounds
WithinToleranceMutant(normr, normr0, tolerance) ==
    normr0 > 0 /\ normr * tolerance.deno < tolerance.nume * normr0

WithinTolerance(normr, normr0, tolerance) ==
    normr0 > 0 /\ normr * tolerance.deno <= tolerance.nume * normr0

CGInit ==
    /\ cgin \in CGInputs
    /\ cgpc = "start"
    /\ cgk = 0
    /\ cgiters = 0
    /\ cgnormr = 0
    /\ cgexit = "none"

\* r <- b - A*x; normr0 <- sqrt(r.r); k <- 1
CG_Start ==
    /\ cgpc = "start"
    /\ cgk' = 1
    /\ cgpc' = "head"
    /\ UNCHANGED <<cgin, cgiters, cgnormr, cgexit>>
    /\ UNCHANGED <<rvars, lvars, mvars, hvars, uvars, cvars, pvars>>

\* for k = 1 ... maxIter: the loop ends once k has passed maxIter
CG_LoopEnd ==
    /\ cgpc = "head"
    /\ cgk > cgin.maxIter
    /\ cgexit' = "maxIter"
    /\ cgpc' = "done"
    /\ UNCHANGED <<cgin, cgk, cgiters, cgnormr>>
    /\ UNCHANGED <<rvars, lvars, mvars, hvars, uvars, cvars, pvars>>

\* one iteration, from the preconditioner to the test of the residual
CG_Iteration ==
    /\ cgpc = "head"
    /\ cgk <= cgin.maxIter
    /\ cgiters' = cgiters + 1
    /\ cgnormr' = cgin.norms[cgk]
    /\ IF WithinTolerance(cgnormr', cgin.normr0, cgin.tolerance)
       THEN /\ cgexit' = "tolerance"
            /\ cgpc' = "done"
            /\ cgk' = cgk
       ELSE /\ cgexit' = cgexit
            /\ cgpc' = "head"
            /\ cgk' = cgk + 1
    /\ UNCHANGED cgin
    /\ UNCHANGED <<rvars, lvars, mvars, hvars, uvars, cvars, pvars>>

CGNext ==
    \/ CG_Start
    \/ CG_LoopEnd
    \/ CG_Iteration

----------------------------------------------------------------------------
(* The physical SparseMatrix: its constructor unpacks the regions of the   *)
(* task, regions[baseRID], regions[baseRID + 1], ..., into its members.    *)
(* A region is described by the logical array it is a sub-region of.       *)

\* element types of the members of LogicalSparseMatrix
LogicalElementType ==
    [geoms |-> "Geometry", sclrs |-> "SparseMatrixScalars",
     nonzerosInRow |-> "char", mtxIndG |-> "global_int_t",
     mtxIndL |-> "local_int_t", matrixValues |-> "floatType",
     matrixDiagonal |-> "floatType", localToGlobalMap |-> "global_int_t",
     dcAllreduceSum |-> "DynamicCollective", neighbors |-> "int",
     sendLength |-> "local_int_t", synchronizers |-> "Synchronizers",
     pullBEs |-> "BaseExtent", pullBuffer |-> "floatType"]

\* the statements "member = new Container<type>(regions[cid++], ...)" of
\* mUnpack, in order
UnpackBindingsMutant ==
    << [member |-> "geom", container |-> "Item", type |-> "Geometry"],
       [member |-> "sclrs", container |-> "Item",
        type |-> "SparseMatrixScalars"],
       [member |-> "nonzerosInRow", container |-> "Array", type |-> "char"],
       [member |-> "mtxIndL", container |-> "Array", type |-> "local_int_t"],
       [member |-> "mtxIndG", container |-> "Array", type |-> "global_int_t"],
       [member |-> "matrixValues", container |-> "Array",
        type |-> "floatType"],
       [member |-> "matrixDiagonal", container |-> "Array",
        type |-> "floatType"],
       [member |-> "localToGlobalMap", container |-> "Array",
        type |-> "global_int_t"],
       [member |-> "dcAllreduceSum", container |-> "Item",
        type |-> "DynamicCollective"],
       [member |-> "neighbors", container |-> "Array", type |-> "int"],
       [member |-> "sendLength", container |-> "Array",
        type |-> "local_int_t"],
       [member |-> "synchronizers", container |-> "Item",
        type |-> "Synchronizers"],
       [member |-> "pullBEs", container |-> "Array", type |-> "BaseExtent"] >>

UnpackBindings ==
    << [member |-> "geom", container |-> "Item", type |-> "Geometry"],
       [member |-> "sclrs", container |-> "Item",
        type |-> "SparseMatrixScalars"],
       [member |-> "nonzerosInRow", container |-> "Array", type |-> "char"],
       [member |-> "mtxIndG", container |-> "Array", type |-> "global_int_t"],
       [member |-> "mtxIndL", container |-> "Array", type |-> "local_int_t"],
       [member |-> "matrixValues", container |-> "Array",
        type |-> "floatType"],
       [member |-> "matrixDiagonal", container |-> "Array",
        type |-> "floatType"],
       [member |-> "localToGlobalMap", container |-> "Array",
        type |-> "global_int_t"],
       [member |-> "dcAllreduceSum", container |-> "Item",
        type |-> "DynamicCollective"],
       [member |-> "neighbors", container |-> "Array", type |-> "int"],
       [member |-> "sendLength", container |-> "Array",
        type |-> "local_int_t"],
       [member |-> "synchronizers", container |-> "Item",
        type |-> "Synchronizers"],
       [member |-> "pullBEs", container |-> "Array", type |-> "BaseExtent"] >>

\* the member pointers of SparseMatrix that mUnpack and mVerifyUnpack name
PhysicalMembers ==
    {"geom", "sclrs", "nonzerosInRow", "mtxIndG", "mtxIndL", "matrixValues",
     "matrixDiagonal", "localToGlobalMap", "dcAllreduceSum", "neighbors",
     "sendLength", "synchronizers", "pullBEs"}

\* the regions of a task: those of the structures packed before the
\* matrix, then the sub-regions of mLogicalItems in order, then those of
\* the structures packed after it; indices start at 0
TaskRegions(baseRID, nAfter) ==
    [i \in 0..(baseRID + Len(mLogicalItems) + nAfter - 1) |->
        IF i < baseRID THEN [of |-> "before", index |-> i]
        ELSE IF i < baseRID + Len(mLogicalItems)
             THEN [of |-> mLogicalItems[i - baseRID + 1], index |-> i]
             ELSE [of |-> "after", index |-> i]]

\* the objects a SparseMatrix can own: the wrapper a member points to is
\* named after the member, the task-local array after elementsToSend
HeapObjects == PhysicalMembers \cup {"elementsToSend"}

MaxBaseRID == 2
ItemFlags == {"NADA", "WITH_GHOSTS"}

UnpackInit ==
    /\ uin \in { [regions |-> TaskRegions(b, a), baseRID |-> b, iFlags |-> f] :
                 b \in 0..MaxBaseRID, a \in 0..1, f \in ItemFlags }
    /\ upc = "constructing"
    /\ cid = 0
    /\ members = [m \in PhysicalMembers |-> nullptr]
    /\ mNRegionEntries = 0
    /\ mUnpackFlags = "NADA"
    /\ elementsToSend = nullptr
    /\ heap = {}
    /\ freed = [o \in HeapObjects |-> 0]

\* size_t cid = baseRID
Unpack_Begin ==
    /\ upc = "constructing"
    /\ cid' = uin.baseRID
    /\ upc' = "unpacking"
    /\ UNCHANGED <<uin, members, mNRegionEntries, mUnpackFlags,
                   elementsToSend, heap, freed>>
    /\ UNCHANGED <<rvars, lvars, mvars, hvars, cgvars, cvars, pvars>>

\* the next statement member = new Container<type>(regions[cid++], ...)
Unpack_Bind ==
    /\ upc = "unpacking"
    /\ cid - uin.baseRID < Len(UnpackBindings)
    /\ LET b == UnpackBindings[cid - uin.baseRID + 1]
       IN  /\ members' = [members EXCEPT ![b.member] =
                         [region |-> uin.regions[cid],
                          container |-> b.container, type |-> b.type]]
           /\ heap' = heap \cup {b.member}
    /\ cid' = cid + 1
    /\ UNCHANGED <<uin, upc, mNRegionEntries, mUnpackFlags, elementsToSend,
                   freed>>
    /\ UNCHANGED <<rvars, lvars, mvars, hvars, cgvars, cvars, pvars>>

\* mNRegionEntries = cid - baseRID; mUnpackFlags = iFlags
Unpack_End ==
    /\ upc = "unpacking"
    /\ cid - uin.baseRID = Len(UnpackBindings)
    /\ mNRegionEntries' = cid - uin.baseRID
    /\ mUnpackFlags' = uin.iFlags
    /\ upc' = "unpacked"
    /\ UNCHANGED <<uin, cid, members, elementsToSend, heap, freed>>
    /\ UNCHANGED <<rvars, lvars, mvars, hvars, cgvars, cvars, pvars>>

\* mVerifyUnpack: assert(member->data()) for each of the 13 members
VerifyUnpack ==
    /\ upc = "unpacked"
    /\ upc' = IF \A m \in PhysicalMembers : members[m] # nullptr
              THEN "constructed"
              ELSE "aborted"
    /\ UNCHANGED <<uin, cid, members, mNRegionEntries, mUnpackFlags,
                   elementsToSend, heap, freed>>
    /\ UNCHANGED <<rvars, lvars, mvars, hvars, cgvars, cvars, pvars>>

\* SetupHalo gives the matrix its task-local elementsToSend array
SetupHalo ==
    /\ upc = "constructed"
    /\ elementsToSend = nullptr
    /\ elementsToSend' = [array |-> "elementsToSend"]
    /\ heap' = heap \cup {"elementsToSend"}
    /\ UNCHANGED <<uin, upc, cid, members, mNRegionEntries, mUnpackFlags,
                   freed>>
    /\ UNCHANGED <<rvars, lvars, mvars, hvars, cgvars, cvars, pvars>>

\* the delete statements of ~SparseMatrix, in order
DestructorDeletes ==
    <<"geom", "sclrs", "nonzerosInRow", "mtxIndG", "mtxIndL", "matrixValues",
      "matrixDiagonal", "localToGlobalMap", "dcAllreduceSum", "neighbors",
      "sendLength", "synchronizers">>

\* delete p: releases the object p points to; nothing if p is nullptr
Delete(fr, p, object) ==
    IF p = nullptr THEN fr ELSE [fr EXCEPT ![object] = @ + 1]

RECURSIVE DeleteMembers(_, _)
DeleteMembers(fr, i) ==
    IF i > Len(DestructorDeletes) THEN fr
    ELSE DeleteMembers(Delete(fr, members[DestructorDeletes[i]],
                              DestructorDeletes[i]), i + 1)

\* ~SparseMatrix: the twelve deletes, then
\* if (elementsToSend) delete[] elementsToSend
Destructor ==
    /\ upc = "constructed"
    /\ freed' = Delete(DeleteMembers(freed, 1), elementsToSend,
                       "elementsToSend")
    /\ heap' = {o \in heap : freed'[o] = 0}
    /\ upc' = "destroyed"
    /\ UNCHANGED <<uin, cid, members, mNRegionEntries, mUnpackFlags,
                   elementsToSend>>
    /\ UNCHANGED <<rvars, lvars, mvars, hvars, cgvars, cvars, pvars>>

UnpackNext ==
    \/ Unpack_Begin
    \/ Unpack_Bind
    \/ Unpack_End
    \/ VerifyUnpack
    \/ SetupHalo
    \/ Destructor

----------------------------------------------------------------------------
(* ReportResults called by every rank of the run: the three allReduce      *)
(* calls on times[4] and the rank test.  allReduce arrives at the dynamic  *)
(* collective with the rank's value and returns the reduced value once     *)
(* the collective has received all its arrivals.                           *)
CollRanks == 3
T4Vals == {1, 3}

\* the collectives of lines 119-121, in program order
CollectiveOrder == <<"dcAllRedMinFT", "dcAllRedMaxFT", "dcAllRedSumFT">>
Collectives == {CollectiveOrder[i] : i \in 1..Len(CollectiveOrder)}

RanksOf(run) == 0..(run.size - 1)

\* the allReduce calls stand before "if (Ageom->rank == 0)": every rank
\* makes them
ParticipatesMutant(rank) == rank = 0

Participates(rank) == TRUE

CollInit ==
    /\ cin \in UNION { { [size |-> sz, t4 |-> t] : t \in [0..(sz - 1) -> T4Vals] } :
                       sz \in 1..CollRanks }
    /\ cpos = [r \in RanksOf(cin) |-> "call"]
    /\ cdone = [r \in RanksOf(cin) |-> 0]
    /\ carrlog = [r \in RanksOf(cin) |-> <<>>]
    /\ ccontrib = [c \in Collectives |-> <<>>]
    /\ clocals = [r \in RanksOf(cin) |-> [t4min |-> R(0), t4max |-> R(0),
                                          t4avg |-> R(0)]]
    /\ creports = <<>>

\* lines 109-117: entry, up to the first allReduce
Coll_Enter(r) ==
    /\ r \in RanksOf(cin)
    /\ cpos[r] = "call"
    /\ cpos' = [cpos EXCEPT ![r] = IF Participates(r) THEN "reduce"
                                   ELSE "test"]
    /\ UNCHANGED <<cin, cdone, carrlog, ccontrib, clocals, creports>>
    /\ UNCHANGED <<rvars, lvars, mvars, hvars, cgvars, uvars, pvars>>

\* number of arrivals a collective has received
Arrivals(c) == Cardinality(DOMAIN ccontrib[c])

\* the collective of the allReduce call a rank stands at
CurrentCollective(r) == CollectiveOrder[cdone[r] + 1]

\* the value the collective yields once all arrivals are in
Reduced(c) ==
    IF c = "dcAllRedMinFT" THEN AllReduceMin(ccontrib[c])
    ELSE IF c = "dcAllRedMaxFT" THEN AllReduceMax(ccontrib[c])
    ELSE AllReduceSum(ccontrib[c])

\* allReduce, first half: the rank arrives with its scalar
Coll_Arrive(r) ==
    /\ r \in RanksOf(cin)
    /\ cpos[r] = "reduce"
    /\ LET c == CurrentCollective(r)
           n == Arrivals(c)
       IN  /\ ccontrib' = [ccontrib EXCEPT ![c] =
                   [i \in 0..n |-> IF i < n THEN ccontrib[c][i] ELSE cin.t4[r]]]
           /\ carrlog' = [carrlog EXCEPT ![r] = Append(@, c)]
    /\ cpos' = [cpos EXCEPT ![r] = "wait"]
    /\ UNCHANGED <<cin, cdone, clocals, creports>>
    /\ UNCHANGED <<rvars, lvars, mvars, hvars, cgvars, uvars, pvars>>

\* allReduce, second half: the reduced value is returned to the rank once
\* the collective has its geom.size arrivals; lines 119-121 assign it
Coll_Yield(r) ==
    /\ r \in RanksOf(cin)
    /\ cpos[r] = "wait"
    /\ LET c == CurrentCollective(r)
       IN  /\ Arrivals(c) = cin.size
           /\ clocals' = [clocals EXCEPT ![r] =
                  IF c = "dcAllRedMinFT" THEN [@ EXCEPT !.t4min = R(Reduced(c))]
                  ELSE IF c = "dcAllRedMaxFT" THEN [@ EXCEPT !.t4max = R(Reduced(c))]
                  ELSE [@ EXCEPT !.t4avg = R(Reduced(c))]]
    /\ cdone' = [cdone EXCEPT ![r] = @ + 1]
    /\ cpos' = [cpos EXCEPT ![r] = IF cdone[r] + 1 < Len(CollectiveOrder)
                                   THEN "reduce" ELSE "average"]
    /\ UNCHANGED <<cin, carrlog, ccontrib, creports>>
    /\ UNCHANGED <<rvars, lvars, mvars, hvars, cgvars, uvars, pvars>>

\* line 122
Coll_Average(r) ==
    /\ r \in RanksOf(cin)
    /\ cpos[r] = "average"
    /\ clocals' = [clocals EXCEPT ![r].t4avg = RDiv(@, R(cin.size))]
    /\ cpos' = [cpos EXCEPT ![r] = "test"]
    /\ UNCHANGED <<cin, cdone, carrlog, ccontrib, creports>>
    /\ UNCHANGED <<rvars, lvars, mvars, hvars, cgvars, uvars, pvars>>

\* line 126 with the block it guards (DDOT timing lines 424-427) and the
\* return
Coll_RankTest(r) ==
    /\ r \in RanksOf(cin)
    /\ cpos[r] = "test"
    /\ creports' = IF r = 0
                   THEN Append(creports, [rank |-> r,
                                          t4min |-> clocals[r].t4min,
                                          t4max |-> clocals[r].t4max,
                                          t4avg |-> clocals[r].t4avg])
                   ELSE creports
    /\ cpos' = [cpos EXCEPT ![r] = "returned"]
    /\ UNCHANGED <<cin, cdone, carrlog, ccontrib, clocals>>
    /\ UNCHANGED <<rvars, lvars, mvars, hvars, cgvars, uvars, pvars>>

\* one step of rank r's ReportResults task
RankStep(r) ==
    \/ Coll_Enter(r)
    \/ Coll_Arrive(r)
    \/ Coll_Yield(r)
    \/ Coll_Average(r)
    \/ Coll_RankTest(r)

CollNext ==
    \E r \in 0..(CollRanks - 1) :
        \/ Coll_Enter(r)
        \/ Coll_Arrive(r)
        \/ Coll_Yield(r)
        \/ Coll_Average(r)
        \/ Coll_RankTest(r)

----------------------------------------------------------------------------
(* The specifications: each runs one part and leaves the others at rest.   *)
ReportIdle ==
    /\ args = [none |-> TRUE]
    /\ rpc = "idle"
    /\ t4red = [t4min |-> R(0), t4max |-> R(0), t4avg |-> R(0)]
    /\ doc = <<>>
    /\ isValidRun = FALSE
    /\ yaml = FALSE

LifecycleIdle ==
    /\ lgeom = [none |-> TRUE]
    /\ arrays = [m \in Members |-> FreshArray]
    /\ allocLog = <<>>
    /\ deallocLog = <<>>
    /\ launchDomain = 0
    /\ nPartsArg = 0
    /\ collectives = <<>>
    /\ dcRegion = <<>>
    /\ oobWrite = FALSE
    /\ lpc = "idle"

MapIdle ==
    /\ mgeom = [none |-> TRUE]
    /\ globalToLocalMap = <<>>
    /\ mpc = "idle"

HaloIdle ==
    /\ hpc = [r \in Ranks |-> "idle"]
    /\ hgen = [r \in Ranks |-> 0]
    /\ pbTriggered = [r \in Ranks |-> 0]
    /\ pbArrivals = [r \in Ranks |-> 0]
    /\ puts = {}
    /\ pullBuffer = [r \in Ranks |-> [n \in Neighbors(r) |-> 0]]
    /\ haloRead = [r \in Ranks |->
                      [n \in Neighbors(r) |-> [want |-> 0, got |-> 0]]]

CGIdle ==
    /\ cgin = [none |-> TRUE]
    /\ cgpc = "idle"
    /\ cgk = 0
    /\ cgiters = 0
    /\ cgnormr = 0
    /\ cgexit = "none"

UnpackIdle ==
    /\ uin = [none |-> TRUE]
    /\ upc = "idle"
    /\ cid = 0
    /\ members = [m \in PhysicalMembers |-> nullptr]
    /\ mNRegionEntries = 0
    /\ mUnpackFlags = "NADA"
    /\ elementsToSend = nullptr
    /\ heap = {}
    /\ freed = [o \in HeapObjects |-> 0]

CollIdle ==
    /\ cin = [none |-> TRUE]
    /\ cpos = <<>>
    /\ cdone = <<>>
    /\ carrlog = <<>>
    /\ ccontrib = <<>>
    /\ clocals = <<>>
    /\ creports = <<>>

ExtraIdle == CGIdle /\ UnpackIdle /\ CollIdle /\ GridIdle

SpecReportInit ==
    ReportInit /\ LifecycleIdle /\ MapIdle /\ HaloIdle /\ ExtraIdle
SpecReport == SpecReportInit /\ [][ReportNext]_vars

SpecReportChainInit ==
    ChainInit /\ LifecycleIdle /\ MapIdle /\ HaloIdle /\ ExtraIdle
SpecReportChain == SpecReportChainInit /\ [][ReportNext]_vars

SpecReportFlagsInit ==
    FlagInit /\ LifecycleIdle /\ MapIdle /\ HaloIdle /\ ExtraIdle
SpecReportFlags == SpecReportFlagsInit /\ [][ReportNext]_vars

SpecLifecycleInit ==
    ReportIdle /\ LifecycleInit /\ MapIdle /\ HaloIdle /\ ExtraIdle
SpecLifecycle == SpecLifecycleInit /\ [][LifecycleNext]_vars

SpecMapInit ==
    ReportIdle /\ LifecycleIdle /\ MapInit /\ HaloIdle /\ ExtraIdle
SpecMap == SpecMapInit /\ [][MapNext]_vars

SpecHaloInit ==
    ReportIdle /\ LifecycleIdle /\ MapIdle /\ HaloInit /\ ExtraIdle
SpecHalo == SpecHaloInit /\ [][HaloNext]_vars

\* the driver is a sequential loop that is never suspended for good: a step
\* that can be taken is taken
MainIdle == ReportIdle /\ LifecycleIdle /\ MapIdle /\ HaloIdle
SpecCGInit == MainIdle /\ CGInit /\ UnpackIdle /\ CollIdle /\ GridIdle
SpecCG == SpecCGInit /\ [][CGNext]_vars /\ WF_vars(CGNext)

SpecUnpackInit == MainIdle /\ CGIdle /\ UnpackInit /\ CollIdle /\ GridIdle
SpecUnpack == SpecUnpackInit /\ [][UnpackNext]_vars

\* every rank's task is scheduled: a rank that can step eventually does
SpecCollectiveInit == MainIdle /\ CGIdle /\ UnpackIdle /\ CollInit /\ GridIdle
SpecCollective ==
    /\ SpecCollectiveInit
    /\ [][CollNext]_vars
    /\ \A r \in 0..(CollRanks - 1) : WF_vars(RankStep(r))

SpecGridInit == MainIdle /\ CGIdle /\ UnpackIdle /\ CollIdle /\ GridInit
SpecGrid == SpecGridInit /\ [][GridNext]_vars


----------------------------------------------------------------------------
(* Properties of the report.                                               *)

\* the top-level sections of the document, in order: the elements added
\* with an empty value
SectionKeys(d) ==
    LET secs == SelectSeq(d, LAMBDA e : e.value = Str(""))
    IN [i \in 1..Len(secs) |-> secs[i].key]

\* the children of the first top-level element with key k
ChildrenOf(d, k) == IF FirstIdx(d, k) = 0 THEN <<>> ELSE d[FirstIdx(d, k)].children

HasKey(es, k) == \E i \in 1..Len(es) : es[i].key = k
HasEntry(es, k, v) == \E i \in 1..Len(es) : es[i].key = k /\ es[i].value = v
UploadInvited(es) == \E i \in 1..Len(es) : es[i].value = Str(UploadURL)

\* rank 0 has written the Final Summary
FinalWritten == rpc \in {"gen", "done"} /\ args.geom.rank = 0
FinalEntries == ChildrenOf(doc, FinalSummary)

\* the four inputs of the verdict
TestsPass ==
    /\ args.testcg_data.count_fail = 0
    /\ args.testsymmetry_data.count_fail = 0
    /\ args.testnorms_data.pass
NoGlobalFailure == args.global_failure = 0

\* C1: on rank 0 the Final Summary declares the result VALID exactly when
\* both count_fail are 0, testnorms_data.pass holds and global_failure is 0;
\* in every other case it carries "HPCG result is" "INVALID." and no VALID
\* line.
C1_ValidIffAllPass ==
    FinalWritten =>
        /\ isValidRun <=> (TestsPass /\ NoGlobalFailure)
        /\ HasKey(FinalEntries, ValidKey) <=> (TestsPass /\ NoGlobalFailure)
        /\ ~(TestsPass /\ NoGlobalFailure) =>
               /\ HasEntry(FinalEntries, InvalidKey, Str("INVALID."))
               /\ ~HasKey(FinalEntries, ValidKey)

C1_Witness ==
    /\ rpc = "done" /\ args.geom.rank = 0
    /\ TestsPass /\ NoGlobalFailure
    /\ HasKey(FinalEntries, ValidKey)
    /\ ~HasKey(FinalEntries, InvalidKey)

ExpectedSections ==
    <<"Machine Summary",
      "Global Problem Dimensions",
      "Processor Dimensions",
      "Local Domain Dimensions",
      "########## Problem Summary  ##########",
      "Setup Information",
      "Linear System Information",
      "Multigrid Information",
      "########## Memory Use Summary  ##########",
      "Memory Use Information",
      "########## V&V Testing Summary  ##########",
      "Spectral Convergence Tests",
      DepartureFromSymmetry,
      "########## Iterations Summary  ##########",
      "Iteration Count Information",
      "########## Reproducibility Summary  ##########",
      "Reproducibility Information",
      "########## Performance Summary (times in sec) ##########",
      "Benchmark Time Summary",
      "Floating Point Operations Summary",
      "GB/s Summary",
      "GFLOP/s Summary",
      "User Optimization Overheads",
      "DDOT Timing Variations",
      FinalSummary>>

\* C2: with global_failure non-zero, rank 0 still runs to the end (it is
\* never aborted, every position before the return is one from which the
\* function goes on, and at the return every section up to the Final
\* Summary is there and the YAML is generated), the
\* Result of "Iteration Count Information" is FAILED and the Final Summary
\* says INVALID, also when the three tests pass.
C2_GlobalFailureCompletesInvalid ==
    (args.geom.rank = 0 /\ ~NoGlobalFailure) =>
        /\ rpc # "aborted"
        /\ rpc # "done" => rpc \in {"call", "reduced", "vv", "perf", "final", "gen"}
        /\ rpc = "done" =>
               /\ yaml
               /\ SectionKeys(doc) = ExpectedSections
               /\ HasEntry(ChildrenOf(doc, "Iteration Count Information"),
                           "Result", Str("FAILED"))
               /\ HasEntry(FinalEntries, InvalidKey, Str("INVALID."))
               /\ ~isValidRun

C2_Witness ==
    /\ rpc = "done" /\ args.geom.rank = 0
    /\ ~NoGlobalFailure /\ TestsPass
    /\ HasEntry(ChildrenOf(doc, "Iteration Count Information"),
                "Result", Str("FAILED"))
    /\ HasEntry(FinalEntries, InvalidKey, Str("INVALID."))

\* C3: the invitation to upload to hpcg-benchmark.org is in the Final
\* Summary iff the run is valid and (times[0] >= 1800 or quickPath); a valid
\* run with times[0] < 1800 and no quickPath states the minimum of 1800 s
\* and has no invitation; an invalid run has no invitation.
C3_UploadInvitation ==
    FinalWritten =>
        /\ UploadInvited(FinalEntries) <=>
               (/\ TestsPass /\ NoGlobalFailure
                /\ (args.times[0] >= minOfficialTime \/ args.quickPath))
        /\ (/\ TestsPass /\ NoGlobalFailure
            /\ args.times[0] < minOfficialTime /\ ~args.quickPath) =>
               /\ HasEntry(FinalEntries, MinTimeKey, R(minOfficialTime))
               /\ ~UploadInvited(FinalEntries)
        /\ ~(TestsPass /\ NoGlobalFailure) => ~UploadInvited(FinalEntries)

C3_Witness ==
    /\ rpc = "done" /\ args.geom.rank = 0
    /\ TestsPass /\ NoGlobalFailure
    /\ args.times[0] < minOfficialTime /\ ~args.quickPath
    /\ HasEntry(FinalEntries, MinTimeKey, R(minOfficialTime))
    /\ ~UploadInvited(FinalEntries)

\* C4, as claimed: with quickPath selected, the three tests passing and no
\* global failure, isValidRun is true and the Final Summary carries the
\* quick-path caveat, whatever times[0] is.
C4_QuickPathCaveatAlways ==
    (FinalWritten /\ args.quickPath /\ TestsPass /\ NoGlobalFailure) =>
        /\ isValidRun
        /\ HasKey(FinalEntries, QuickPathKey)

\* C4, amended: with quickPath selected, the three tests passing and no
\* global failure, isValidRun is true, and the Final Summary carries the
\* quick-path caveat exactly when times[0] < 1800; from 1800 s on it carries
\* the plain upload invitation and no caveat.
C4_QuickPathCaveatBelowMinTime ==
    (FinalWritten /\ args.quickPath /\ TestsPass /\ NoGlobalFailure) =>
        /\ isValidRun
        /\ HasKey(FinalEntries, QuickPathKey) <=>
               args.times[0] < minOfficialTime
        /\ args.times[0] >= minOfficialTime =>
               HasEntry(FinalEntries,
                   "Please upload results from the YAML file contents to",
                   Str(UploadURL))

C4_Witness ==
    /\ rpc = "done" /\ args.geom.rank = 0
    /\ args.quickPath /\ TestsPass /\ NoGlobalFailure
    /\ args.times[0] < minOfficialTime
    /\ isValidRun
    /\ HasKey(FinalEntries, QuickPathKey)

IsPrefix(s, t) == Len(s) <= Len(t) /\ \A i \in 1..Len(s) : s[i] = t[i]

\* C5: on rank 0 the top-level sections are added once each, in the fixed
\* order of ExpectedSections, whatever the inputs: at every moment the
\* sections so far are a prefix of that list, and at the return they are
\* the whole list.
C5_SectionOrder ==
    /\ IsPrefix(SectionKeys(doc), ExpectedSections)
    /\ (rpc = "done" /\ args.geom.rank = 0) =>
           SectionKeys(doc) = ExpectedSections

C5_Witness ==
    /\ rpc = "done" /\ yaml
    /\ args.numberOfMgLevels > 1
    /\ ~TestsPass
    /\ Len(SectionKeys(doc)) = 25
    /\ SectionKeys(doc)[25] = FinalSummary


----------------------------------------------------------------------------
(* Properties of LogicalSparseMatrix.                                      *)

\* the arrays allocate has created
Created == {m \in Members : arrays[m].nAlloc > 0}

\* C6: after partition(nParts) every array that allocate created, the 13
\* accessed ones and pullBuffer, is partitioned nParts ways (none is left
\* unpartitioned, none has another count, so all have sub-regions
\* 0..nParts-1), and launchDomain is the launch domain of that partition.
C6_AllPartitionedAlike ==
    lpc = "partitioned" =>
        /\ Cardinality(Created)
               = Len(mLogicalItems) + Len(mLogicalItemsNoAccess)
        /\ \A m \in Created :
               /\ arrays[m].nParts = nPartsArg
               /\ arrays[m].launchDomain = nPartsArg
        /\ launchDomain = nPartsArg

C6_Witness ==
    /\ lpc = "partitioned"
    /\ nPartsArg = 2
    /\ Cardinality(Created) = 14
    /\ arrays["pullBuffer"].nParts = 2
    /\ launchDomain = 2

\* C7: after allocate(geom) and partition(geom.size) exactly one dynamic
\* collective exists, its arrival count is geom.size, and each of the
\* geom.size entries of dcAllreduceSum holds its handle.
C7_OneCollectiveReplicated ==
    (lpc = "partitioned" /\ nPartsArg = lgeom.size) =>
        /\ Len(collectives) = 1
        /\ collectives[1] = lgeom.size
        /\ DOMAIN dcRegion = 0..(lgeom.size - 1)
        /\ \A i \in DOMAIN dcRegion : dcRegion[i] = 1
        /\ ~oobWrite

C7_Witness ==
    /\ lpc = "partitioned"
    /\ lgeom.size = 2 /\ nPartsArg = 2
    /\ collectives = <<2>>
    /\ dcRegion[0] = 1 /\ dcRegion[1] = 1

\* C8: after allocate, optionally partition, and deallocate, every array
\* that allocate created, pullBuffer included, has been deallocated exactly
\* once.
C8_EachDeallocatedOnce ==
    lpc = "deallocated" => \A m \in Created : arrays[m].nDealloc = 1

----------------------------------------------------------------------------
(* Properties of the halo exchange.                                        *)

\* C9: a rank reads the slots filled by neighbour n in the exchange of
\* generation g only after n's barrier has reached g + 1; that barrier
\* reaches a generation only after n's put of that generation has landed
\* in every neighbour's pullBuffer; and no read of generation g + 1
\* observes a value of an earlier generation.
C9_ReadAfterBarrier ==
    /\ \A r \in Ranks : hpc[r] = "read" =>
           \A n \in Neighbors(r) : pbTriggered[n] >= hgen[r] + 1
    /\ \A n \in Ranks : \A r \in Neighbors(n) :
           /\ pullBuffer[r][n] >= pbTriggered[n]
           /\ \A p \in puts : (p.from = n /\ p.to = r) => p.gen > pbTriggered[n]
    /\ \A r \in Ranks : \A n \in Neighbors(r) :
           haloRead[r][n].got >= haloRead[r][n].want

C9_Witness ==
    \E r \in Ranks : \E n \in Neighbors(r) :
        /\ haloRead[r][n].want = 2
        /\ haloRead[r][n].got = 2
        /\ hgen[r] = 2

----------------------------------------------------------------------------
(* Properties of PopulateGlobalToLocalMap.                                 *)

\* the global row of the local point (ix, iy, iz), as the numbering of the
\* global grid of gnx x gny x gnz points defines it
GlobalRowOf(g, ix, iy, iz) ==
    (g.ipz * g.nz + iz) * (g.nx * g.npx) * (g.ny * g.npy)
        + (g.ipy * g.ny + iy) * (g.nx * g.npx) + (g.ipx * g.nx + ix)

\* C10: after PopulateGlobalToLocalMap the map has exactly nx*ny*nz
\* entries, maps the global row of every local point (ix, iy, iz) to
\* iz*nx*ny + iy*nx + ix, is injective, and its values are exactly
\* 0 .. nx*ny*nz - 1.
C10_MapInvertsNumbering ==
    mpc = "populated" =>
        LET g == mgeom
            m == globalToLocalMap
            n == g.nx * g.ny * g.nz
        IN /\ Cardinality(DOMAIN m) = n
           /\ \A ix \in 0..(g.nx - 1) : \A iy \in 0..(g.ny - 1) :
                  \A iz \in 0..(g.nz - 1) :
                      /\ GlobalRowOf(g, ix, iy, iz) \in DOMAIN m
                      /\ m[GlobalRowOf(g, ix, iy, iz)]
                             = iz * g.nx * g.ny + iy * g.nx + ix
           /\ \A k1 \in DOMAIN m : \A k2 \in DOMAIN m :
                  m[k1] = m[k2] => k1 = k2
           /\ {m[k] : k \in DOMAIN m} = 0..(n - 1)

C10_Witness ==
    /\ mpc = "populated"
    /\ mgeom.nx = 2 /\ mgeom.ny = 1 /\ mgeom.nz = 2
    /\ mgeom.npx = 2 /\ mgeom.ipx = 1 /\ mgeom.ipz = 1
    /\ Cardinality(DOMAIN globalToLocalMap) = 4
    /\ 0 \notin DOMAIN globalToLocalMap


----------------------------------------------------------------------------
(* Sizes of the sub-regions.                                               *)

\* C11: after allocate(geom) and partition(geom.size) the sub-region of
\* pullBuffer of every rank holds localNumberOfColumns entries of that rank
\* (its rows and its halo), so that every landing range with
\* base + extent <= localNumberOfColumns lies inside the sub-region.
C11_PullBufferHoldsColumns ==
    (lpc = "partitioned" /\ nPartsArg = lgeom.size) =>
        \A i \in 0..(lgeom.size - 1) :
            LET g == RankGeometry(lgeom, i)
                cols == localNumberOfColumns(g)
                held == SubRegionSize(arrays["pullBuffer"])
            IN /\ held = cols
               /\ \A base \in 0..cols : \A extent \in 0..cols :
                      base + extent <= cols => base + extent <= held

----------------------------------------------------------------------------
(* The operation counts and the rating of the report.                      *)

FlopSummary == "Floating Point Operations Summary"

\* the value of the first entry with key k of section sec of the report
EntryValue(sec, k) ==
    LET es == ChildrenOf(doc, sec) IN es[FirstIdx(es, k)].value

\* rank 0 has written the performance sections
PerformanceWritten == rpc \in {"final", "gen", "done"} /\ args.geom.rank = 0

\* equality of two fractions
REq(x, y) == x.nume * y.deno = y.nume * x.deno

RECURSIVE SumOver(_, _)
SumOver(f, S) ==
    IF S = {} THEN 0
    ELSE LET x == CHOOSE y \in S : TRUE IN f[x] + SumOver(f, S \ {x})

\* C12: with niters = numberOfCgSets * optMaxIters and nrow, nnz the totals
\* of the finest matrix, the report's raw counts are
\* ops_ddot = ops_waxpby = (3*niters + numberOfCgSets)*2*nrow and
\* ops_spmv = (niters + numberOfCgSets)*2*nnz.
C12_RawOpCounts ==
    PerformanceWritten =>
        LET sets == args.numberOfCgSets
            niters == sets * args.optMaxIters
            nrow == args.A[1].totalNumberOfRows
            nnz == args.A[1].totalNumberOfNonzeros
        IN /\ EntryValue(FlopSummary, "Raw DDOT")
                  = R((3 * niters + sets) * 2 * nrow)
           /\ EntryValue(FlopSummary, "Raw WAXPBY")
                  = R((3 * niters + sets) * 2 * nrow)
           /\ EntryValue(FlopSummary, "Raw SpMV")
                  = R((niters + sets) * 2 * nnz)

C12_Witness ==
    /\ PerformanceWritten
    /\ args.numberOfCgSets = 2 /\ args.optMaxIters = 2
    /\ args.A[1].totalNumberOfRows = 128
    /\ EntryValue(FlopSummary, "Raw DDOT") = R(3584)
    /\ EntryValue(FlopSummary, "Raw SpMV") = R(12 * (27 * 128 - 2))

\* C13: the report's preconditioner count is the sum over the
\* numberOfMgLevels - 1 non-coarsest levels of
\* pre*niters*4*nnz + niters*2*nnz + post*niters*4*nnz with that level's own
\* nnz and smoother steps, plus niters*4*nnz of the coarsest level; with one
\* level it is niters*4*nnz of the single matrix.
C13_PrecondOpCount ==
    PerformanceWritten =>
        LET n == args.numberOfMgLevels
            niters == args.numberOfCgSets * args.optMaxIters
            nnz == [l \in 1..n |-> args.A[l].totalNumberOfNonzeros]
            term == [l \in 1..(n - 1) |->
                        args.A[l].mgData.numberOfPresmootherSteps * niters * 4 * nnz[l]
                        + niters * 2 * nnz[l]
                        + args.A[l].mgData.numberOfPostsmootherSteps * niters * 4
                              * nnz[l]]
        IN /\ EntryValue(FlopSummary, "Raw MG")
                  = R(SumOver(term, 1..(n - 1)) + niters * 4 * nnz[n])
           /\ n = 1 => EntryValue(FlopSummary, "Raw MG")
                           = R(niters * 4 * args.A[1].totalNumberOfNonzeros)

C13_Witness ==
    /\ PerformanceWritten
    /\ args.numberOfMgLevels = 2
    /\ args.numberOfCgSets = 2
    /\ args.A[1].totalNumberOfNonzeros = 27 * 64 - 2
    /\ args.A[2].totalNumberOfNonzeros = 27 * 8 - 4
    /\ EntryValue(FlopSummary, "Raw MG")
           = R(10 * 4 * (27 * 64 - 2) + 4 * 4 * (27 * 8 - 4))

\* C14: the rating on the VALID line is
\* refOps / (times[0] + numberOfCgSets*(times[7]/10 + times[9]/10)) / 1e9
\* with refOps = ops * refMaxIters / optMaxIters and
\* ops = ops_ddot + ops_waxpby + ops_spmv + ops_precond; refOps = ops when
\* refMaxIters = optMaxIters.
C14_ValidLineRating ==
    (FinalWritten /\ isValidRun) =>
        LET t == args.times
            ops == EntryValue(FlopSummary, "Total")
            refOps == EntryValue(FlopSummary, "Total with convergence overhead")
            time == RAdd(R(t[0]),
                         RMul(R(args.numberOfCgSets),
                              RAdd(RDiv(R(t[7]), R(10)), RDiv(R(t[9]), R(10)))))
        IN /\ ops = R(EntryValue(FlopSummary, "Raw DDOT").nume
                      + EntryValue(FlopSummary, "Raw WAXPBY").nume
                      + EntryValue(FlopSummary, "Raw SpMV").nume
                      + EntryValue(FlopSummary, "Raw MG").nume)
           /\ refOps = RDiv(RMul(ops, R(args.refMaxIters)),
                            R(args.optMaxIters))
           /\ args.refMaxIters = args.optMaxIters => REq(refOps, ops)
           /\ EntryValue(FinalSummary, ValidKey) = PerGiga(RDiv(refOps, time))

C14_Witness ==
    /\ FinalWritten /\ isValidRun
    /\ args.refMaxIters = 3 /\ args.optMaxIters = 2
    /\ args.numberOfCgSets = 2
    /\ HasKey(FinalEntries, ValidKey)
    /\ EntryValue(FinalSummary, ValidKey).deno = 2 * (args.times[0] * 100 + 320)

----------------------------------------------------------------------------
(* Order of release.                                                       *)

Reverse(q) == [i \in 1..Len(q) |-> q[Len(q) + 1 - i]]

\* C15: deallocate releases the arrays in the reverse of the order in which
\* allocate created them: the last array allocated is the first released and
\* the first allocated is the last released.
C15_DeallocateReversesAllocate ==
    lpc = "deallocated" => deallocLog = Reverse(allocLog)

\* C20: with getGlobalXYZ(geom) = nx*ny*nz*size, after allocate(geom) and
\* partition(geom.size) every rank owns L = nx*ny*nz entries of
\* nonzerosInRow, matrixDiagonal and localToGlobalMap, 27*L entries of
\* mtxIndG, mtxIndL and matrixValues (slot r*27+k of each local row r < L
\* and k < 27 is inside its sub-region), 26 entries of neighbors, sendLength
\* and pullBEs, and one entry of geoms, sclrs, synchronizers and
\* dcAllreduceSum.
C20_AlignedSubRegions ==
    (lpc = "partitioned" /\ nPartsArg = lgeom.size) =>
        LET L == lgeom.nx * lgeom.ny * lgeom.nz
            Held(m) == SubRegionSize(arrays[m])
        IN /\ \A m \in Created : arrays[m].length % arrays[m].nParts = 0
           /\ \A m \in {"nonzerosInRow", "matrixDiagonal", "localToGlobalMap"} :
                  Held(m) = L
           /\ \A m \in {"mtxIndG", "mtxIndL", "matrixValues"} :
                  /\ Held(m) = 27 * L
                  /\ \A r \in 0..(L - 1) : \A k \in 0..26 :
                         r * 27 + k < Held(m)
           /\ \A m \in {"neighbors", "sendLength", "pullBEs"} : Held(m) = 26
           /\ \A m \in {"geoms", "sclrs", "synchronizers", "dcAllreduceSum"} :
                  Held(m) = 1

C20_Witness ==
    /\ lpc = "partitioned"
    /\ lgeom.size = 2 /\ nPartsArg = 2
    /\ lgeom.nx = 2 /\ lgeom.ny = 3 /\ lgeom.nz = 1
    /\ arrays["mtxIndL"].length = 324
    /\ SubRegionSize(arrays["mtxIndL"]) = 162
    /\ SubRegionSize(arrays["pullBEs"]) = 26

----------------------------------------------------------------------------
(* Termination of the CG driver.                                           *)

\* iteration j ends with normr/normr0 <= tolerance
Converged(j) ==
    /\ cgin.normr0 # 0
    /\ cgin.norms[j] * cgin.tolerance.deno
           <= cgin.tolerance.nume * cgin.normr0

CGStopsWhereItShould ==
    /\ cgiters <= cgin.maxIter
    /\ cgpc = "done" =>
           \/ /\ cgexit = "tolerance"
              /\ cgiters \in 1..cgin.maxIter
              /\ Converged(cgiters)
              /\ \A j \in 1..(cgiters - 1) : ~Converged(j)
           \/ /\ cgexit = "maxIter"
              /\ cgiters = cgin.maxIter
              /\ \A j \in 1..cgin.maxIter : ~Converged(j)

\* C16: the CG driver always terminates: for every maxIter >= 0 and every
\* tolerance it runs at most maxIter iterations, stops at the first
\* iteration k with normr/normr0 <= tolerance and otherwise after iteration
\* maxIter, and leaves the loop in no other way.
C16_CGTerminates == [](CGStopsWhereItShould) /\ <>(cgpc = "done")

C16_Witness ==
    /\ cgpc = "done"
    /\ cgexit = "tolerance"
    /\ cgin.maxIter = 3 /\ cgiters = 2
    /\ cgin.normr0 = 2 /\ cgnormr = 1 /\ cgin.tolerance = Ratio(1, 2)

----------------------------------------------------------------------------
(* Unpack order against pack order.                                        *)

Unpacked == upc \in {"unpacked", "constructed"}

\* member m was built on the k-th region after baseRID (k from 0)
BuiltOn(m, k) ==
    /\ members[m] # nullptr
    /\ members[m].region = uin.regions[uin.baseRID + k]

\* no member was built on a region outside the 13 of mLogicalItems; the
\* region of the no-access pullBuffer is not among them
OnlyLogicalItemsConsumed ==
    \A m \in PhysicalMembers :
        members[m] # nullptr =>
            /\ members[m].region.index >= uin.baseRID
            /\ members[m].region.index < uin.baseRID + Len(mLogicalItems)
            /\ members[m].region.of # "pullBuffer"

\* C17 as stated: for every k the k-th region consumed by mUnpack is bound
\* to the member with the same name and element type as the k-th entry of
\* mLogicalItems; mNRegionEntries is the number of entries of mLogicalItems,
\* 13; the no-access pullBuffer is not consumed.
C17_UnpackSameNames ==
    Unpacked =>
        /\ mNRegionEntries = Len(mLogicalItems)
        /\ mNRegionEntries = 13
        /\ \A k \in 0..(Len(mLogicalItems) - 1) :
               \E m \in PhysicalMembers :
                   /\ BuiltOn(m, k)
                   /\ m = mLogicalItems[k + 1]
                   /\ members[m].type = LogicalElementType[mLogicalItems[k + 1]]
        /\ OnlyLogicalItemsConsumed

\* the logical array a member of the physical matrix is the sub-region of
LogicalNameOf(m) == IF m = "geom" THEN "geoms" ELSE m

\* C17, amended: for every k the k-th region consumed by mUnpack is bound
\* to the member with the element type of the k-th entry of mLogicalItems
\* and with its name, except that the sub-region of geoms is bound to the
\* member geom; mNRegionEntries is 13, the number of entries of
\* mLogicalItems; the no-access pullBuffer is not consumed.
C17_UnpackMatchesPack ==
    Unpacked =>
        /\ mNRegionEntries = Len(mLogicalItems)
        /\ mNRegionEntries = 13
        /\ \A k \in 0..(Len(mLogicalItems) - 1) :
               \E m \in PhysicalMembers :
                   /\ BuiltOn(m, k)
                   /\ LogicalNameOf(m) = mLogicalItems[k + 1]
                   /\ members[m].type = LogicalElementType[mLogicalItems[k + 1]]
        /\ OnlyLogicalItemsConsumed

C17_Witness ==
    /\ upc = "constructed"
    /\ uin.baseRID = 2
    /\ cid = 15
    /\ mNRegionEntries = 13
    /\ members["geom"].region.of = "geoms"
    /\ members["pullBEs"].region = uin.regions[14]
    /\ DOMAIN uin.regions = 0..15

----------------------------------------------------------------------------
(* The level loops of ReportResults on the chain of matrices.              *)

\* the hierarchy is a chain of exactly numberOfMgLevels matrices: Ac and
\* mgData are non-null on every level but the last, Ac is null on the last
WellFormedChain(a) ==
    /\ Len(a.A) = a.numberOfMgLevels
    /\ \A l \in 1..(a.numberOfMgLevels - 1) : a.A[l].mgData # nullptr

\* C18: on a chain of exactly numberOfMgLevels matrices rank 0 dereferences
\* no null matrix and no null mgData in its level loops; each loop visits
\* every level once, finest first (the memory model reads the finest level
\* through A before its loop); the coarsest-level terms come from the last
\* matrix of the chain; the cursor is null after the memory usage loop, so
\* the assertion holds.
C18_LevelLoopsSafe ==
    (WellFormedChain(args) /\ args.geom.rank = 0
     /\ rpc \notin {"call", "reduced"}) =>
        LET n == args.numberOfMgLevels
            levels == [l \in 1..n |-> l]
            flop == FlopLoopWalk(args)
            memory == MemoryLoopWalk(args)
            coarse == CoarseGridsWalk(args)
        IN /\ rpc \notin {"ub", "aborted"}
           /\ ~NullDerefFlopLoop(args)
           /\ ~NullDerefMemoryLoop(args)
           /\ ~NullDerefCoarseGridsLoop(args)
           /\ Append(flop.visited, flop.cursor) = levels
           /\ flop.cursor = Len(args.A)
           /\ <<1>> \o memory.visited = levels
           /\ <<1>> \o [j \in 1..Len(coarse.visited) |-> coarse.visited[j] + 1]
                  = levels
           /\ IsNull(args, memory.cursor)

C18_Witness ==
    /\ WellFormedChain(args)
    /\ args.geom.rank = 0
    /\ args.numberOfMgLevels = 2
    /\ Len(args.A) = 2
    /\ args.A[1].mgData = MGData /\ args.A[2].mgData = nullptr
    /\ rpc = "done"
    /\ yaml

----------------------------------------------------------------------------
\* C19: when all geom.size ranks call ReportResults, every rank arrives
\* exactly once at each of the three collectives, in the order min, max,
\* sum, before its rank test; every collective receives geom.size
\* arrivals, every rank returns, only rank 0 builds the report, and the
\* reported average is the sum of the ranks' times[4] divided by geom.size.
PastCollectives(r) == cpos[r] \in {"average", "test", "returned"}

AllReturned == \A r \in RanksOf(cin) : cpos[r] = "returned"

ArrivalsInOrder ==
    \A r \in RanksOf(cin) :
        /\ \E n \in 0..Len(CollectiveOrder) :
               carrlog[r] = SubSeq(CollectiveOrder, 1, n)
        /\ PastCollectives(r) => carrlog[r] = CollectiveOrder
        /\ cpos[r] \in {"test", "returned"} => PastCollectives(r)

ArrivalsComplete ==
    \A c \in Collectives :
        /\ Arrivals(c) <= cin.size
        /\ (\E r \in RanksOf(cin) : PastCollectives(r)) => Arrivals(c) = cin.size

OnlyRankZeroReports ==
    /\ Len(creports) <= 1
    /\ \A i \in 1..Len(creports) :
           /\ creports[i].rank = 0
           /\ creports[i].t4min = R(AllReduceMin(cin.t4))
           /\ creports[i].t4max = R(AllReduceMax(cin.t4))
           /\ creports[i].t4avg = Ratio(AllReduceSum(cin.t4), cin.size)
    /\ cpos[0] = "returned" => Len(creports) = 1

CollectivesSafe ==
    cin # [none |-> TRUE] =>
        ArrivalsInOrder /\ ArrivalsComplete /\ OnlyRankZeroReports

C19_AllRanksArrive == [](CollectivesSafe) /\ <>(AllReturned)

C19_Witness ==
    /\ cin # [none |-> TRUE]
    /\ cin.size = CollRanks
    /\ cin.t4[0] # cin.t4[1]
    /\ AllReturned
    /\ Len(creports) = 1

----------------------------------------------------------------------------
\* C21: on a process grid whose ranks all have the same nx, ny, nz, once
\* every rank has run PopulateGlobalToLocalMap the key sets of the ranks'
\* maps are pairwise disjoint and their union is exactly
\* 0..(nx*npx*ny*npy*nz*npz - 1): every global row has exactly one owner.
AllPopulated == \A r \in DOMAIN ppc : ppc[r] = "populated"

Populated == {r \in DOMAIN ppc : ppc[r] = "populated"}

GlobalRows(gr) ==
    0..(gr.nx * gr.npx * gr.ny * gr.npy * gr.nz * gr.npz - 1)

C21_EveryRowHasOneOwner ==
    pgrid # [none |-> TRUE] =>
        /\ \A r1, r2 \in Populated :
               r1 # r2 => (DOMAIN pmaps[r1]) \cap (DOMAIN pmaps[r2]) = {}
        /\ \A r \in Populated : DOMAIN pmaps[r] \subseteq GlobalRows(pgrid)
        /\ AllPopulated =>
               UNION {DOMAIN pmaps[r] : r \in DOMAIN pmaps} = GlobalRows(pgrid)

C21_Witness ==
    /\ pgrid # [none |-> TRUE]
    /\ pgrid.npx = 2 /\ pgrid.npy = 2 /\ pgrid.npz = 2
    /\ pgrid.nx = 2 /\ pgrid.ny = 1 /\ pgrid.nz = 2
    /\ AllPopulated

----------------------------------------------------------------------------
\* C22: after construction followed by destruction every wrapper that
\* mUnpack allocated (the 13 Item/Array wrappers) has been released exactly
\* once, elementsToSend has been released iff it was non-null, and no
\* wrapper allocated by mUnpack remains allocated.
UnpackAllocated == {UnpackBindings[i].member : i \in 1..Len(UnpackBindings)}

C22_DestructorReleasesAll ==
    upc = "destroyed" =>
        /\ \A m \in UnpackAllocated : freed[m] = 1
        /\ freed["elementsToSend"] = (IF elementsToSend = nullptr THEN 0 ELSE 1)
        /\ heap \cap UnpackAllocated = {}

----------------------------------------------------------------------------
\* C23: in a valid run the Final Summary carries the note on the reference
\* version of a kernel (dot product, SpMV, MG, WAXPBY) iff the kernel's flag
\* is false, so with the four flags at their initial value all four notes
\* appear; the MG note is the "severely suboptimal" variant iff
\* numThreads > 1; an invalid run carries none of these notes.
DotNoteKey == "Reference version of ComputeDotProduct used"
SpmvNoteKey == "Reference version of ComputeSPMV used"
MgNoteKey == "Reference version of ComputeMG used"
MgThreadsNoteKey ==
    "Reference version of ComputeMG used and number of threads greater than 1"
WaxpbyNoteKey == "Reference version of ComputeWAXPBY used"
Severe == Str("Performance results are severely suboptimal")

ReferenceNoteKeys ==
    {DotNoteKey, SpmvNoteKey, MgNoteKey, MgThreadsNoteKey, WaxpbyNoteKey}

\* the reference notes of the Final Summary, in order
NotesWritten ==
    SelectSeq(FinalEntries, LAMBDA e : e.key \in ReferenceNoteKeys)

\* the notes a valid run with the given flags should carry
RECURSIVE Concat(_)
Concat(ss) == IF ss = <<>> THEN <<>> ELSE Head(ss) \o Concat(Tail(ss))

ExpectedNotes(fl, numThreads) ==
    Concat(<< IF fl.isDotProductOptimized THEN <<>>
              ELSE <<Elem(DotNoteKey, Suboptimal)>>,
              IF fl.isSpmvOptimized THEN <<>>
              ELSE <<Elem(SpmvNoteKey, Suboptimal)>>,
              IF fl.isMgOptimized THEN <<>>
              ELSE IF numThreads > 1
                   THEN <<Elem(MgThreadsNoteKey, Severe)>>
                   ELSE <<Elem(MgNoteKey, Suboptimal)>>,
              IF fl.isWaxpbyOptimized THEN <<>>
              ELSE <<Elem(WaxpbyNoteKey, Suboptimal)>> >>)

InitialFlags ==
    [isDotProductOptimized |-> FALSE, isSpmvOptimized |-> FALSE,
     isMgOptimized |-> FALSE, isWaxpbyOptimized |-> FALSE]

C23_ReferenceNotes ==
    FinalWritten =>
        /\ isValidRun =>
               /\ NotesWritten = ExpectedNotes(args.flags, args.geom.numThreads)
               /\ HasKey(FinalEntries, DotNoteKey) <=>
                      ~args.flags.isDotProductOptimized
               /\ HasKey(FinalEntries, SpmvNoteKey) <=>
                      ~args.flags.isSpmvOptimized
               /\ (HasKey(FinalEntries, MgNoteKey)
                      \/ HasKey(FinalEntries, MgThreadsNoteKey)) <=>
                      ~args.flags.isMgOptimized
               /\ HasKey(FinalEntries, MgThreadsNoteKey) <=>
                      (~args.flags.isMgOptimized /\ args.geom.numThreads > 1)
               /\ HasKey(FinalEntries, WaxpbyNoteKey) <=>
                      ~args.flags.isWaxpbyOptimized
               /\ args.flags = InitialFlags => Len(NotesWritten) = 4
        /\ ~isValidRun => NotesWritten = <<>>

\* a valid run with the MG flag alone at its initial value and two threads
C23_Witness ==
    /\ rpc = "done" /\ args.geom.rank = 0
    /\ isValidRun
    /\ args.geom.numThreads = 2
    /\ args.flags = [InitialFlags EXCEPT !.isDotProductOptimized = TRUE,
                                         !.isSpmvOptimized = TRUE,
                                         !.isWaxpbyOptimized = TRUE]
    /\ NotesWritten = <<Elem(MgThreadsNoteKey, Severe)>>

----------------------------------------------------------------------------
\* C24: in the memory-bandwidth model the writes of the fine-grid residual
\* step of every non-coarsest level are niters * nnz_level * sizeof(double),
\* with the level's number of nonzeros and not its number of rows, and the
\* term is part of the total write count that "Raw Write B/W", "Raw Total
\* B/W" and the total with overheads of the GB/s Summary are computed from.
BandwidthSummary == "GB/s Summary"

\* the write count with the residual step of level l accounted per entry
\* of the sequence residual
WritesWith(residual) ==
    LET n == args.numberOfMgLevels
        sets == args.numberOfCgSets
        niters == sets * args.optMaxIters
        nrow == [l \in 1..n |-> args.A[l].totalNumberOfRows]
        nnz == [l \in 1..n |-> args.A[l].totalNumberOfNonzeros]
        smoothers == [l \in 1..(n - 1) |->
            args.A[l].mgData.numberOfPresmootherSteps * niters * nrow[l] * 8
            + args.A[l].mgData.numberOfPostsmootherSteps * niters * nnz[l] * 8]
    IN (3 * niters + sets) * 8
       + (3 * niters + sets) * nrow[1] * 8
       + (niters + sets) * nrow[1] * 8
       + SumOver(smoothers, 1..(n - 1))
       + SumOver(residual, 1..(n - 1))
       + niters * nrow[n] * 8

ResidualWritesByNonzeros ==
    [l \in 1..(args.numberOfMgLevels - 1) |->
        args.numberOfCgSets * args.optMaxIters
            * args.A[l].totalNumberOfNonzeros * 8]

ResidualWritesByRows ==
    [l \in 1..(args.numberOfMgLevels - 1) |->
        args.numberOfCgSets * args.optMaxIters
            * args.A[l].totalNumberOfRows * 8]

C24_ResidualWritesUseNonzeros ==
    PerformanceWritten =>
        LET w == WritesWith(ResidualWritesByNonzeros)
            refw == RDiv(RMul(R(w), R(args.refMaxIters)), R(args.optMaxIters))
        IN /\ sizeofDouble = 8
           /\ fnwrites(args) = w
           /\ EntryValue(BandwidthSummary, "Raw Write B/W")
                  = PerGiga(RDiv(R(w), R(args.times[0])))
           /\ EntryValue(BandwidthSummary, "Raw Total B/W")
                  = PerGiga(RDiv(R(fnreads(args) + w), R(args.times[0])))
           /\ EntryValue(BandwidthSummary,
                         "Total with convergence and optimization phase overhead")
                  = PerGiga(RDiv(RAdd(frefnreads(args), refw),
                                 TimeWithOverhead(args)))
           /\ args.numberOfMgLevels > 1 =>
                  EntryValue(BandwidthSummary, "Raw Write B/W")
                      # PerGiga(RDiv(R(WritesWith(ResidualWritesByRows)),
                                     R(args.times[0])))

\* one rank, two levels of 64 and 8 rows, two iterations: 27616 bytes of
\* residual writes in a total of 61560
C24_Witness ==
    /\ PerformanceWritten
    /\ args.geom.size = 1
    /\ args.numberOfMgLevels = 2
    /\ args.numberOfCgSets = 1 /\ args.optMaxIters = 2
    /\ args.times[0] = 1800
    /\ args.A[1].totalNumberOfNonzeros = 1726
    /\ ResidualWritesByNonzeros[1] = 27616
    /\ EntryValue(BandwidthSummary, "Raw Write B/W")
           = PerGiga(Ratio(61560, 1800))

====
